---- MODULE Spec2Model ----
(***************************************************************************)
(* Vektor: attribute-driven, scroll-triggered animation engine.            *)
(*                                                                         *)
(* The model covers the animation module capability (BaseAnimation and its *)
(* FadeInAnimation / ParallaxAnimation variants), the host services the    *)
(* modules talk to (IntersectionObserver, requestAnimationFrame, the       *)
(* transitionend event, window scroll listeners) and the AnimationManager. *)
(*                                                                         *)
(* Every operation of the program is a pure operator on a "world" record   *)
(*   [mods, obs, dom, raf, nextRaf, mgr, win, thrown, logged, burst]       *)
(* so that a handler that calls other methods in a loop is one action.     *)
(***************************************************************************)
EXTENDS Integers, Sequences, FiniteSets, TLC

\* ------------------------------------------------------------------ bounds
NumElements == 2        \* elements of the document fixture
MaxObservers == 2       \* IntersectionObservers constructed in one run
MaxQueue == 2           \* entries one observer holds before it is notified
MaxRaf == 2             \* requestAnimationFrame ids handed out and stored
MaxRoster == 2          \* length of a module's roster (it is append-only)
MaxScrollListeners == 2 \* scroll listeners one parallax instance attaches
MaxModules == 2         \* module instances a manager run constructs
MaxTimers == 2          \* pending timers of one kind the manager has started
MaxTimedRoster == 3     \* length of a roster when the markup has durations

Elements == 1..NumElements

\* ------------------------------------------------ host: strings, values
\* A string is the sequence of its characters; Null is getAttribute's null.
\* A number is kept in thousandths (0.5 is 500), NaN apart from the numbers.
Null == <<"null">>

Undef == [t |-> "undefined"]
Bool(b) == [t |-> "boolean", b |-> b]
Num(n) == [t |-> "number", n |-> n]
NaN == [t |-> "NaN"]
Text(s) == [t |-> "string", s |-> s]
Parsed(s) == [t |-> "object", s |-> s]     \* what JSON.parse made of text s

Digits == {"0", "1", "2", "3", "4", "5", "6", "7", "8", "9"}

DigitValue(c) ==
    CASE c = "0" -> 0 [] c = "1" -> 1 [] c = "2" -> 2 [] c = "3" -> 3
      [] c = "4" -> 4 [] c = "5" -> 5 [] c = "6" -> 6 [] c = "7" -> 7
      [] c = "8" -> 8 [] c = "9" -> 9

Drop(s, n) == SubSeq(s, n + 1, Len(s))

startsWith(s, prefix) ==
    Len(s) >= Len(prefix) /\ SubSeq(s, 1, Len(prefix)) = prefix

endsWith(s, suffix) ==
    Len(s) >= Len(suffix)
    /\ SubSeq(s, Len(s) - Len(suffix) + 1, Len(s)) = suffix

\* Length of the longest prefix of s made of digits.
RECURSIVE digitsPrefix(_)
digitsPrefix(s) ==
    IF s = << >> \/ Head(s) \notin Digits THEN 0
    ELSE 1 + digitsPrefix(Tail(s))

RECURSIVE natural(_)
natural(ds) ==
    IF ds = << >> THEN 0
    ELSE natural(SubSeq(ds, 1, Len(ds) - 1)) * 10 + DigitValue(ds[Len(ds)])

\* The digits after a decimal point, in thousandths.
digitAt(ds, k) == IF Len(ds) >= k THEN DigitValue(ds[k]) ELSE 0

fraction(ds) == digitAt(ds, 1) * 100 + digitAt(ds, 2) * 10 + digitAt(ds, 3)

unsigned(s) == IF s # << >> /\ Head(s) = "-" THEN Tail(s) ELSE s

\* body starts with i digits, then a point and f digits (f = 0: no point
\* followed by digits).
decimal(body, i, f) ==
    IF i = 0 /\ f = 0 THEN NaN
    ELSE Num(natural(SubSeq(body, 1, i)) * 1000
             + fraction(SubSeq(body, i + 2, i + 1 + f)))

decimalPrefix(body, i) ==
    decimal(body, i,
            IF Len(body) > i /\ body[i + 1] = "."
            THEN digitsPrefix(Drop(body, i + 1)) ELSE 0)

negated(v) == IF v = NaN THEN NaN ELSE Num(0 - v.n)

\* parseFloat: the longest prefix that is a decimal literal, NaN without one.
\* (Strings here carry no whitespace, "+", exponent or "Infinity".)
parseFloat(s) ==
    IF s # << >> /\ Head(s) = "-"
    THEN negated(decimalPrefix(Tail(s), digitsPrefix(Tail(s))))
    ELSE decimalPrefix(s, digitsPrefix(s))

numericFrom(body, i) ==
    /\ i >= 1
    /\ \/ i = Len(body)
       \/ /\ Len(body) >= i + 2
          /\ body[i + 1] = "."
          /\ digitsPrefix(Drop(body, i + 1)) = Len(body) - i - 1

\* The test /^-?\d+(\.\d+)?$/.
isNumeric(s) == numericFrom(unsigned(s), digitsPrefix(unsigned(s)))

\* JSON.parse, as far as whether it throws. Each operator takes the text
\* still to read and gives what is left after one construct, or Fail.
\* (Strings here carry no whitespace and no backslash.)
Fail == <<"fail">>

JsonLiteral(s, lit) == IF startsWith(s, lit) THEN Drop(s, Len(lit)) ELSE Fail

RECURSIVE JsonString(_)
JsonString(s) ==
    IF s = << >> THEN Fail
    ELSE IF Head(s) = "\"" THEN Tail(s)
    ELSE JsonString(Tail(s))

\* The parts of a number: int, frac, exp.
JsonInt(body, i) ==
    IF i = 0 \/ (i > 1 /\ body[1] = "0") THEN Fail ELSE Drop(body, i)

JsonFrac(r) ==
    IF r = Fail \/ r = << >> \/ Head(r) # "." THEN r
    ELSE IF digitsPrefix(Tail(r)) = 0 THEN Fail
    ELSE Drop(r, 1 + digitsPrefix(Tail(r)))

JsonExpDigits(r) == IF digitsPrefix(r) = 0 THEN Fail ELSE Drop(r, digitsPrefix(r))

JsonExp(r) ==
    IF r = Fail \/ r = << >> \/ Head(r) \notin {"e", "E"} THEN r
    ELSE IF Len(r) >= 2 /\ r[2] \in {"+", "-"} THEN JsonExpDigits(Drop(r, 2))
    ELSE JsonExpDigits(Tail(r))

JsonNumber(s) == JsonExp(JsonFrac(JsonInt(unsigned(s), digitsPrefix(unsigned(s)))))

RECURSIVE JsonValue(_), JsonElements(_), JsonMembers(_), JsonMember(_), JsonNext(_)
JsonValue(s) ==
    IF s = << >> \/ s = Fail THEN Fail
    ELSE CASE Head(s) = "[" ->
                 IF Len(s) >= 2 /\ s[2] = "]" THEN Drop(s, 2)
                 ELSE JsonElements(JsonValue(Tail(s)))
           [] Head(s) = "{" ->
                 IF Len(s) >= 2 /\ s[2] = "}" THEN Drop(s, 2)
                 ELSE JsonMembers(Tail(s))
           [] Head(s) = "\"" -> JsonString(Tail(s))
           [] Head(s) = "t" -> JsonLiteral(s, <<"t", "r", "u", "e">>)
           [] Head(s) = "f" -> JsonLiteral(s, <<"f", "a", "l", "s", "e">>)
           [] Head(s) = "n" -> JsonLiteral(s, <<"n", "u", "l", "l">>)
           [] OTHER -> JsonNumber(s)

\* r is what is left after an element of an array.
JsonElements(r) ==
    IF r = << >> \/ r = Fail THEN Fail
    ELSE IF Head(r) = "]" THEN Tail(r)
    ELSE IF Head(r) = "," THEN JsonElements(JsonValue(Tail(r)))
    ELSE Fail

\* k is what is left after the key of a member of an object.
JsonMember(k) ==
    IF k = << >> \/ k = Fail \/ Head(k) # ":" THEN Fail
    ELSE JsonValue(Tail(k))

\* r is what is left after a member of an object.
JsonNext(r) ==
    IF r = << >> \/ r = Fail THEN Fail
    ELSE IF Head(r) = "}" THEN Tail(r)
    ELSE IF Head(r) = "," THEN JsonMembers(Tail(r))
    ELSE Fail

\* s starts at the key of a member of an object.
JsonMembers(s) ==
    IF s # << >> /\ Head(s) = "\""
    THEN JsonNext(JsonMember(JsonString(Tail(s))))
    ELSE Fail

JSON_parse_throws(s) == JsonValue(s) # << >>

\* String(v). (Of a parsed array, the text between its brackets: the
\* arrays here hold numbers.)
DigitChars == <<"0", "1", "2", "3", "4", "5", "6", "7", "8", "9">>

RECURSIVE naturalString(_)
naturalString(n) ==
    IF n < 10 THEN <<DigitChars[n + 1]>>
    ELSE naturalString(n \div 10) \o <<DigitChars[(n % 10) + 1]>>

\* f thousandths, 0 < f < 1000, without trailing zeros.
fractionString(f) ==
    IF f % 100 = 0 THEN naturalString(f \div 100)
    ELSE IF f % 10 = 0 THEN Tail(naturalString(100 + f \div 10))
    ELSE Tail(naturalString(1000 + f))

unsignedString(a) ==
    naturalString(a \div 1000)
       \o (IF a % 1000 = 0 THEN << >> ELSE <<".">> \o fractionString(a % 1000))

String(v) ==
    CASE v.t = "string" -> v.s
      [] v.t = "boolean" -> IF v.b THEN <<"t", "r", "u", "e">> ELSE <<"f", "a", "l", "s", "e">>
      [] v.t = "number" ->
           IF v.n < 0 THEN <<"-">> \o unsignedString(0 - v.n)
           ELSE unsignedString(v.n)
      [] v.t = "NaN" -> <<"N", "a", "N">>
      [] v.t = "object" ->
           IF Head(v.s) = "[" THEN SubSeq(v.s, 2, Len(v.s) - 1)
           ELSE <<"[", "o", "b", "j", "e", "c", "t", " ", "O", "b", "j", "e", "c", "t", "]">>
      [] OTHER -> <<"u", "n", "d", "e", "f", "i", "n", "e", "d">>

\* str.replace(c, ''): the first occurrence of c removed.
RECURSIVE removeFirst(_, _)
removeFirst(s, c) ==
    IF s = << >> THEN << >>
    ELSE IF Head(s) = c THEN Tail(s)
    ELSE <<Head(s)>> \o removeFirst(Tail(s), c)

\* What JavaScript's "||" and "if" take for true.
truthy(v) ==
    CASE v.t = "boolean" -> v.b
      [] v.t = "number" -> v.n # 0
      [] v.t = "string" -> v.s # << >>
      [] v.t = "object" -> TRUE
      [] OTHER -> FALSE

\* ------------------------------------------------- the document fixture
\* Markup of the elements: which carry the primary attribute, the module the
\* attribute names, and the option attributes next to it (already coerced).
Undefined == -1

ElemHasAttr(e) == e % 3 # 0
ElemModule(e) == IF e % 2 = 0 THEN "parallax" ELSE ""     \* value of the attribute
ElemRepeat(e) == e % 2 = 0
ElemClass(e) == e % 3 = 1
ElemFrom(e) == IF e % 2 = 0 THEN 50 ELSE Undefined
ElemTo(e) == Undefined
ElemInview(e) == IF e % 2 = 0 THEN <<"5", "0", "%">> ELSE Null   \* kw-inview="50%"

\* ---------------------------------------------------------------- types.ts
DEFAULT_attributeName == "kw"
DEFAULT_defaultAnimation == "fade-in"

DefaultConfig ==
    [attributeName |-> DEFAULT_attributeName,
     defaultAnimation |-> DEFAULT_defaultAnimation]

\* An option record ({} is EmptyOptions; a Map miss is NoOptions).
EmptyOptions == [has |-> TRUE, repeat |-> FALSE, class |-> FALSE,
                 from |-> Undefined, to |-> Undefined, inview |-> Undef,
                 duration |-> Undef, delay |-> Undef]
NoOptions == [has |-> FALSE, repeat |-> FALSE, class |-> FALSE,
              from |-> Undefined, to |-> Undefined, inview |-> Undef,
              duration |-> Undef, delay |-> Undef]

\* ------------------------------------------------------- AttributeParser
\* parseAttributeValue without the try/catch around JSON.parse.
parseAttributeValue_noCatch(value) ==
    IF value = << >> \/ value = <<"t", "r", "u", "e">> THEN Bool(TRUE)
    ELSE IF value = <<"f", "a", "l", "s", "e">> THEN Bool(FALSE)
    ELSE IF isNumeric(value) THEN parseFloat(value)
    ELSE IF \/ startsWith(value, <<"{">>) /\ endsWith(value, <<"}">>)
            \/ startsWith(value, <<"[">>) /\ endsWith(value, <<"]">>)
         THEN IF JSON_parse_throws(value) THEN [t |-> "SyntaxError"]
              ELSE Parsed(value)
    ELSE Text(value)

parseAttributeValue(value) ==
    IF value = << >> \/ value = <<"t", "r", "u", "e">> THEN Bool(TRUE)
    ELSE IF value = <<"f", "a", "l", "s", "e">> THEN Bool(FALSE)
    ELSE IF isNumeric(value) THEN parseFloat(value)
    ELSE IF \/ startsWith(value, <<"{">>) /\ endsWith(value, <<"}">>)
            \/ startsWith(value, <<"[">>) /\ endsWith(value, <<"]">>)
         THEN IF JSON_parse_throws(value) THEN Text(value) ELSE Parsed(value)
    ELSE Text(value)

\* One entry of the common table: raw is getAttribute's result, current the
\* value the option has so far.
parseCommonAttribute(raw, current) ==
    IF raw # Null /\ current = Undef THEN parseAttributeValue(raw) ELSE current

\* cfg is the parser's configuration [attributeName, defaultAnimation];
\* d is the element's DOM record (d.attr is the base token its markup uses).
hasAnimationAttributes(cfg, d) == d.present /\ d.attr = cfg.attributeName

\* parseModuleName with a missing attribute read as an empty one.
parseModuleName_nullAsEmpty(cfg, d, e) ==
    IF ElemModule(e) = "" /\ cfg.defaultAnimation # ""
    THEN cfg.defaultAnimation
    ELSE ElemModule(e)

\* "" stands for both null and the empty string: both are falsy to the caller.
parseModuleName(cfg, d, e) ==
    IF d.attr # cfg.attributeName THEN ""
    ELSE IF ElemModule(e) = "" /\ cfg.defaultAnimation # ""
         THEN cfg.defaultAnimation
         ELSE ElemModule(e)

\* The fixture's options are the coerced ones; the inview, duration and
\* delay attributes of the element are coerced here.
parseModuleOptions(d, e) ==
    [has |-> TRUE, repeat |-> ElemRepeat(e), class |-> ElemClass(e),
     from |-> ElemFrom(e), to |-> ElemTo(e),
     inview |-> parseCommonAttribute(d.inview, Undef),
     duration |-> parseCommonAttribute(d.duration, Undef),
     delay |-> parseCommonAttribute(d.delay, Undef)]

\* NoOptions stands for the null result.
parseElementOptions(cfg, d, e) ==
    IF parseModuleName(cfg, d, e) = "" THEN NoOptions
    ELSE parseModuleOptions(d, e)

\* --------------------------- AttributeParser, attribute by attribute
\* The parser as it reads an element's attributes: el is the element's
\* attribute list in document order, each [name, value] a pair of strings;
\* p is the parser, [config, commonAttributes], its configuration holding
\* strings (an empty defaultAnimation is a default that is not configured).
\* An options object is a function from the option names set so far.
Lower == <<"a", "b", "c", "d", "e", "f", "g", "h", "i", "j", "k", "l", "m",
           "n", "o", "p", "q", "r", "s", "t", "u", "v", "w", "x", "y", "z">>
Upper == <<"A", "B", "C", "D", "E", "F", "G", "H", "I", "J", "K", "L", "M",
           "N", "O", "P", "Q", "R", "S", "T", "U", "V", "W", "X", "Y", "Z">>

toUpperCase(c) == Upper[CHOOSE k \in 1..Len(Lower) : Lower[k] = c]

\* str.replace(/-([a-z])/g, (_, letter) => letter.toUpperCase())
RECURSIVE camelCase(_)
camelCase(str) ==
    IF str = << >> THEN << >>
    ELSE IF Head(str) = "-" /\ Len(str) >= 2
            /\ \E k \in 1..Len(Lower) : Lower[k] = str[2]
         THEN <<toUpperCase(str[2])>> \o camelCase(Drop(str, 2))
    ELSE <<Head(str)>> \o camelCase(Tail(str))

CommonAttributes ==
    <<[attributeSuffix |-> <<"d", "u", "r", "a", "t", "i", "o", "n">>,
      optionName |-> <<"d", "u", "r", "a", "t", "i", "o", "n">>],
     [attributeSuffix |-> <<"d", "e", "l", "a", "y">>,
      optionName |-> <<"d", "e", "l", "a", "y">>],
     [attributeSuffix |-> <<"r", "e", "p", "e", "a", "t">>,
      optionName |-> <<"r", "e", "p", "e", "a", "t">>],
     [attributeSuffix |-> <<"s", "p", "e", "e", "d">>,
      optionName |-> <<"s", "p", "e", "e", "d">>],
     [attributeSuffix |-> <<"d", "i", "r", "e", "c", "t", "i", "o", "n">>,
      optionName |-> <<"d", "i", "r", "e", "c", "t", "i", "o", "n">>],
     [attributeSuffix |-> <<"e", "a", "s", "i", "n", "g">>,
      optionName |-> <<"e", "a", "s", "i", "n", "g">>],
     [attributeSuffix |-> <<"c", "l", "a", "s", "s">>,
      optionName |-> <<"c", "l", "a", "s", "s">>],
     [attributeSuffix |-> <<"f", "r", "o", "m">>,
      optionName |-> <<"f", "r", "o", "m">>],
     [attributeSuffix |-> <<"t", "o">>,
      optionName |-> <<"t", "o">>],
     [attributeSuffix |-> <<"s", "t", "a", "r", "t">>,
      optionName |-> <<"s", "t", "a", "r", "t">>],
     [attributeSuffix |-> <<"e", "n", "d">>,
      optionName |-> <<"e", "n", "d">>],
     [attributeSuffix |-> <<"i", "n", "v", "i", "e", "w">>,
      optionName |-> <<"i", "n", "v", "i", "e", "w">>]>>

NewParser(cfg) == [config |-> cfg, commonAttributes |-> CommonAttributes]

\* {...this.config, ...config}: partial is a function from the keys given.
mergeConfig(cfg, partial) ==
    [k \in DOMAIN cfg |-> IF k \in DOMAIN partial THEN partial[k] ELSE cfg[k]]

AttributeParser_setConfig(p, partial) ==
    [p EXCEPT !.config = mergeConfig(@, partial)]

AttributeParser_addCommonAttribute(p, attributeSuffix, optionName) ==
    [p EXCEPT !.commonAttributes =
        Append(@, [attributeSuffix |-> attributeSuffix,
                   optionName |-> optionName])]

getAttribute(el, name) ==
    LET hits == SelectSeq(el, LAMBDA a : a.name = name)
    IN IF hits = << >> THEN Null ELSE hits[1].value

NoKeys == [k \in {} |-> Undef]

get(options, k) == IF k \in DOMAIN options THEN options[k] ELSE Undef

assign(options, k, v) ==
    [x \in DOMAIN options \cup {k} |-> IF x = k THEN v ELSE options[x]]

\* parseModuleName without the default: the attribute's value as it is.
AttributeParser_parseModuleName_noDefault(p, el) ==
    getAttribute(el, p.config.attributeName)

AttributeParser_parseModuleName(p, el) ==
    LET moduleName == getAttribute(el, p.config.attributeName)
    IN IF moduleName = << >> /\ p.config.defaultAnimation # << >>
       THEN p.config.defaultAnimation
       ELSE moduleName

\* The loop over element.attributes: module-prefixed, offset, inview.
RECURSIVE parseAttributes(_, _, _, _)
parseAttributes(p, attributes, prefix, options) ==
    IF attributes = << >> THEN options
    ELSE LET attr == Head(attributes)
             base == p.config.attributeName
             next ==
               IF startsWith(attr.name, prefix)
               THEN assign(options,
                           camelCase(Drop(attr.name, Len(prefix) + 1)),
                           parseAttributeValue(attr.value))
               ELSE IF startsWith(attr.name,
                                  base \o <<"-", "o", "f", "f", "s", "e", "t", "-">>)
               THEN assign(options,
                           camelCase(Drop(attr.name, Len(base) + 1)),
                           parseAttributeValue(attr.value))
               ELSE IF attr.name = base \o <<"-", "i", "n", "v", "i", "e", "w">>
               THEN assign(options, <<"i", "n", "v", "i", "e", "w">>, parseAttributeValue(attr.value))
               ELSE options
         IN parseAttributes(p, Tail(attributes), prefix, next)

RECURSIVE parseCommonAttributes(_, _, _, _)
parseCommonAttributes(p, el, mappings, options) ==
    IF mappings = << >> THEN options
    ELSE LET mapping == Head(mappings)
             attrValue == getAttribute(
                 el, p.config.attributeName \o <<"-">> \o mapping.attributeSuffix)
             next == IF attrValue # Null /\ get(options, mapping.optionName) = Undef
                     THEN assign(options, mapping.optionName,
                                 parseAttributeValue(attrValue))
                     ELSE options
         IN parseCommonAttributes(p, el, Tail(mappings), next)

\* moduleValueMappings = { parallax: 'speed' }
handleModuleValueMapping(moduleName, options) ==
    IF /\ moduleName = <<"p", "a", "r", "a", "l", "l", "a", "x">>
       /\ get(options, <<"v", "a", "l", "u", "e">>) # Undef
       /\ get(options, <<"s", "p", "e", "e", "d">>) = Undef
    THEN LET moved == assign(options, <<"s", "p", "e", "e", "d">>, options[<<"v", "a", "l", "u", "e">>])
         IN [k \in DOMAIN moved \ {<<"v", "a", "l", "u", "e">>} |-> moved[k]]
    ELSE options

AttributeParser_parseModuleOptions(p, el, moduleName) ==
    handleModuleValueMapping(
        moduleName,
        parseCommonAttributes(
            p, el, p.commonAttributes,
            parseAttributes(p, el,
                            p.config.attributeName \o <<"-">> \o moduleName,
                            NoKeys)))

\* The null result, and a result {module, options}.
NullResult == [t |-> "null"]

AttributeParser_parseElementOptions(p, el) ==
    LET moduleName == AttributeParser_parseModuleName(p, el)
    IN IF moduleName = Null \/ moduleName = << >> THEN NullResult
       ELSE [t |-> "parsed", module |-> moduleName,
             options |-> AttributeParser_parseModuleOptions(p, el, moduleName)]

\* ------------------------------------------------------------- host: DOM
ActiveFade == "is-animated"
ActiveParallax == "is-parallaxed"
Custom == "custom"

\* element.style.opacity = v. A change of the value while a transition is
\* declared starts (or reverses) a running transition; without one it applies
\* at once and a running transition is dropped.
setOpacity(d, v) ==
    IF d.opacity = v THEN d
    ELSE [d EXCEPT !.opacity = v, !.running = d.transition]

\* The transitionend event: every listener reset() left on the element runs
\* (each removes the active class, its captured custom class, and itself).
transitionEnd(d) ==
    [d EXCEPT !.running = FALSE,
              !.listeners = {},
              !.cls = IF d.listeners = {} THEN @
                      ELSE (@ \ {ActiveFade})
                           \ (IF "custom" \in d.listeners THEN {Custom} ELSE {})]

\* ------------------------------------------------------- BaseAnimation
\* Thresholds are sets of percentages. The observerOptions field is built by
\* the base class initialiser, before a variant's constructor replaces
\* this.rootMargin and this.threshold.
\* A threshold is a set of ratios, in thousandths.
BaseThreshold == {0, 250, 500, 750, 1000}
FadeThreshold == {0, 100, 200, 300, 400, 500, 600, 700, 800, 900, 1000}
ParallaxThreshold == {0, 100}
BaseRootMargin == "0px"
NoOffsets == "0px 0px 0px 0px"

\* window.addEventListener / removeEventListener on one event type: a
\* callback that is already a listener is not added again.
addEventListener(listeners, callback) ==
    IF \E k \in 1..Len(listeners) : listeners[k] = callback THEN listeners
    ELSE Append(listeners, callback)

removeEventListener(listeners, callback) ==
    SelectSeq(listeners, LAMBDA l : l # callback)

\* The static handleResize / updateWindowDimensions.
updateWindowDimensions(w) == [w EXCEPT !.win.windowHeight = w.win.innerHeight]

\* ensureResizeListener that sets the flag and attaches nothing.
ensureResizeListener_flagOnly(w) ==
    [w EXCEPT !.win.resizeListenerAttached = TRUE]

ensureResizeListener(w) ==
    IF ~w.win.resizeListenerAttached
    THEN [updateWindowDimensions(w) EXCEPT
             !.win.resizeListeners = addEventListener(@, "handleResize"),
             !.win.resizeListenerAttached = TRUE]
    ELSE w

\* The static cleanup().
BaseAnimation_cleanup(w) ==
    IF w.win.resizeListenerAttached
    THEN [w EXCEPT !.win.resizeListeners = removeEventListener(@, "handleResize"),
                   !.win.resizeListenerAttached = FALSE]
    ELSE w

NewModule(kind, cfg) ==
    [kind |-> kind,
     config |-> cfg,
     observerOptions |-> [rootMargin |-> BaseRootMargin, threshold |-> BaseThreshold],
     threshold |-> IF kind = "parallax" THEN ParallaxThreshold ELSE FadeThreshold,
     elements |-> << >>,
     observer |-> 0,
     parsedOptions |-> [e \in Elements |-> NoOptions],
     pendingAnimations |-> [e \in Elements |-> 0],
     scrollListenerAttached |-> FALSE,
     scrollListeners |-> 0,
     rafId |-> 0]

\* new FadeInAnimation() / new ParallaxAnimation(): the field initialisers,
\* then the base constructor's ensureResizeListener().
BaseAnimation_constructor(w, kind, cfg) ==
    ensureResizeListener([w EXCEPT !.mods = Append(@, NewModule(kind, cfg))])

activeClass(m) == IF m.kind = "parallax" THEN ActiveParallax ELSE ActiveFade

isInitialized(m, d) == activeClass(m) \in d.cls

\* parseElementOptions(element)?.options || {}
orEmptyOptions(p) == IF p.has THEN p ELSE EmptyOptions

getElementOptions(m, d, e) ==
    orEmptyOptions(parseElementOptions(m.config, d, e))

\* getOptions returns the cached record, or parses and caches it.
getOptionsValue(m, d, e) ==
    IF m.parsedOptions[e].has THEN m.parsedOptions[e]
    ELSE getElementOptions(m, d, e)

shouldRepeatAnimation(m, d, e) == getOptionsValue(m, d, e).repeat

\* An IntersectionObserver. last[e] is what it last observed of target e:
\* "no" (not a target), "new" (observed, nothing computed yet), "in", "out".
\* queue holds the entries it has computed and not yet delivered.
NewObserver(i, options) ==
    [owner |-> i, connected |-> TRUE,
     rootMargin |-> options.rootMargin, threshold |-> options.threshold,
     last |-> [e \in Elements |-> "no"],
     queue |-> << >>]

\* "50%" -> 0.5 (500 thousandths); NullResult for the null result. The
\* division by 100 is exact for values with at most one decimal.
percentageToThreshold(percentage) ==
    IF percentage = NaN THEN NullResult
    ELSE IF percentage.n < 0 \/ percentage.n > 100 * 1000 THEN NullResult
    ELSE Num(percentage.n \div 100)

parseInviewPercentage(value) ==
    IF value = << >> THEN NullResult
    ELSE percentageToThreshold(parseFloat(removeFirst(value, "%")))

\* The threshold an inview value gives, or the one observerOptions holds.
inviewThreshold(m, inview, inviewPercentage) ==
    IF truthy(inview) /\ inviewPercentage # NullResult
    THEN {inviewPercentage.n}
    ELSE m.observerOptions.threshold

\* The observer options initObserver derives from the first roster
\* element's options.
geometryOptions(m, options) ==
    [rootMargin |-> NoOffsets,
     threshold |-> inviewThreshold(m, options.inview,
                                   parseInviewPercentage(String(options.inview)))]

constructObserver(w, i, oo) ==
    [w EXCEPT !.obs = Append(@, NewObserver(i, oo)),
              !.mods[i].observerOptions = oo,
              !.mods[i].observer = Len(w.obs) + 1]

\* initObserver: returns early on an empty roster; otherwise derives margin
\* and threshold from the first roster element, writes them into the
\* instance's observerOptions, constructs an observer and stores it in
\* this.observer.
initObserver(w, i) ==
    IF Len(w.mods[i].elements) = 0 THEN w
    ELSE constructObserver(
            w, i,
            geometryOptions(w.mods[i],
                            getElementOptions(w.mods[i],
                                              w.dom[w.mods[i].elements[1]],
                                              w.mods[i].elements[1])))

\* observer?.observe(element)
observe(w, i, e) ==
    LET o == w.mods[i].observer
    IN IF o = 0 THEN w
       ELSE IF w.obs[o].last[e] # "no" THEN w
       ELSE [w EXCEPT !.obs[o].last[e] = "new"]

RECURSIVE registerEach(_, _, _)
registerEach(w, i, els) ==
    IF els = << >> THEN w
    ELSE LET e == Head(els)
             m == w.mods[i]
             w1 == IF hasAnimationAttributes(m.config, w.dom[e])
                   THEN observe(
                          [w EXCEPT !.mods[i].elements = Append(@, e),
                                    !.mods[i].parsedOptions[e] =
                                        getElementOptions(m, w.dom[e], e)],
                          i, e)
                   ELSE w
         IN registerEach(w1, i, Tail(els))

BaseAnimation_register(w, i, els) == registerEach(initObserver(w, i), i, els)

\* unobserve every roster element, disconnect, drop the reference; clear the
\* roster and the options cache. A disconnected observer delivers nothing.
BaseAnimation_destroy(w, i) ==
    LET o == w.mods[i].observer
        w1 == IF o = 0 THEN w
              ELSE [w EXCEPT !.obs[o].connected = FALSE,
                             !.obs[o].last = [e \in Elements |-> "no"],
                             !.obs[o].queue = << >>,
                             !.mods[i].observer = 0]
    IN [w1 EXCEPT !.mods[i].elements = << >>,
                  !.mods[i].parsedOptions = [e \in Elements |-> NoOptions]]

\* ------------------------------------------- host: requestAnimationFrame
\* A queued frame callback. id is what requestAnimationFrame returned; the
\* second frame of a fade is requested inside the first and its id is thrown
\* away by the code, so it carries id 0 and no cancel can name it.
FrameCallback(id, kind, i, e, options) ==
    [id |-> id, kind |-> kind, mod |-> i, el |-> e, options |-> options]

requestAnimationFrame(w, kind, i, e, options) ==
    [w EXCEPT !.raf = Append(@, FrameCallback(w.nextRaf, kind, i, e, options)),
              !.nextRaf = @ + 1]

cancelAnimationFrame(w, id) ==
    [w EXCEPT !.raf = SelectSeq(@, LAMBDA c: c.id # id)]

\* ------------------------------------------------------ FadeInAnimation
DefaultFrom == 0
DefaultTo == 100

fromOpacity(options) ==
    IF options.from # Undefined THEN options.from ELSE DefaultFrom
toOpacity(options) ==
    IF options.to # Undefined THEN options.to ELSE DefaultTo

\* options is what getOptions(element) returned and left in the cache.
setInitialOpacity(w, i, e, options) ==
    [w EXCEPT !.mods[i].parsedOptions[e] = options,
              !.dom[e] = setOpacity(w.dom[e], fromOpacity(options))]

initElement(w, i, e) ==
    IF w.dom[e].opacity # 0 /\ ~(ActiveFade \in w.dom[e].cls)
    THEN setInitialOpacity(w, i, e, getOptionsValue(w.mods[i], w.dom[e], e))
    ELSE w

RECURSIVE initEach(_, _, _)
initEach(w, i, els) ==
    IF els = << >> THEN w
    ELSE initEach(initElement(w, i, Head(els)), i, Tail(els))

FadeInAnimation_register(w, i, els) ==
    BaseAnimation_register(initEach(w, i, els), i, els)

\* Milliseconds, or Thrown: a boolean or a parsed structure has no endsWith.
Thrown == [t |-> "TypeError"]

\* A string that ends with "s" counts seconds ("ms" included).
secondsToMs(text, ms) ==
    IF endsWith(text, <<"s">>) /\ ms # NaN THEN Num(ms.n * 1000) ELSE ms

parseTimeValue(value) ==
    CASE value.t = "undefined" -> Num(500 * 1000)
      [] value.t \in {"number", "NaN"} -> value
      [] value.t = "string" -> secondsToMs(value.s, parseFloat(value.s))
      [] OTHER -> Thrown

\* a || b
Or(a, b) == IF truthy(a) THEN a ELSE b

\* The first frame is requested and its id kept in pendingAnimations.
requestFirstFrame(w, i, e, options) ==
    [requestAnimationFrame(w, "fade1", i, e, options) EXCEPT
        !.mods[i].pendingAnimations[e] = w.nextRaf]

\* The duration and the delay are parsed before anything is touched; an
\* exception leaves the call there.
FadeInAnimation_animate(w, i, e, options) ==
    IF ~(ActiveFade \in w.dom[e].cls) /\ w.mods[i].pendingAnimations[e] = 0
    THEN IF \/ parseTimeValue(Or(options.duration, Text(<<"0", ".", "5", "s">>)))
                  = Thrown
            \/ parseTimeValue(Or(options.delay, Text(<<"0", "s">>))) = Thrown
         THEN [w EXCEPT !.thrown = TRUE]
         ELSE requestFirstFrame(initElement(w, i, e), i, e, options)
    ELSE w

\* First frame: declare the transition, request the second frame.
fadeFirstFrame(w, c) ==
    [w EXCEPT !.dom[c.el].transition = TRUE,
              !.raf = Append(@, FrameCallback(0, "fade2", c.mod, c.el, c.options))]

\* Second frame: ending opacity, custom class, active class, forget the entry.
fadeSecondFrame(w, c) ==
    [w EXCEPT !.dom[c.el] =
                  [setOpacity(w.dom[c.el], toOpacity(c.options)) EXCEPT
                      !.cls = (@ \cup {ActiveFade})
                              \cup (IF c.options.class THEN {Custom} ELSE {})],
              !.mods[c.mod].pendingAnimations[c.el] = 0]

\* reset without the repeat test: every not-intersecting entry reverts.
FadeInAnimation_reset_always(w, i, e, options) ==
    LET id == w.mods[i].pendingAnimations[e]
        w1 == IF id # 0
              THEN [cancelAnimationFrame(w, id) EXCEPT
                       !.mods[i].pendingAnimations[e] = 0]
              ELSE w
        d == w1.dom[e]
    IN [w1 EXCEPT
          !.dom[e] =
             [setOpacity([d EXCEPT !.transition = TRUE], fromOpacity(options))
                EXCEPT !.listeners =
                   @ \cup {IF options.class THEN "custom" ELSE "plain"}]]

\* The pending frame of e, if any, is cancelled and forgotten.
cancelPending(w, i, e) ==
    IF w.mods[i].pendingAnimations[e] # 0
    THEN [cancelAnimationFrame(w, w.mods[i].pendingAnimations[e]) EXCEPT
             !.mods[i].pendingAnimations[e] = 0]
    ELSE w

\* cached is what getOptions(element) returned and left in the cache.
revertWhenRepeating(w, i, e, options, cached) ==
    IF cached.repeat
    THEN [w EXCEPT
            !.mods[i].parsedOptions[e] = cached,
            !.dom[e] =
               [setOpacity([w.dom[e] EXCEPT !.transition = TRUE],
                           fromOpacity(options))
                  EXCEPT !.listeners =
                     @ \cup {IF options.class THEN "custom" ELSE "plain"}]]
    ELSE w

resetCancelled(w, i, e, options) ==
    revertWhenRepeating(w, i, e, options,
                        getOptionsValue(w.mods[i], w.dom[e], e))

FadeInAnimation_reset(w, i, e, options) ==
    resetCancelled(cancelPending(w, i, e), i, e, options)

RECURSIVE cancelAll(_, _)
cancelAll(w, ids) ==
    IF ids = {} THEN w
    ELSE LET id == CHOOSE x \in ids : TRUE
         IN cancelAll(cancelAnimationFrame(w, id), ids \ {id})

FadeInAnimation_destroy(w, i) ==
    LET ids == {w.mods[i].pendingAnimations[e] : e \in Elements} \ {0}
        w1 == [cancelAll(w, ids) EXCEPT
                  !.mods[i].pendingAnimations = [e \in Elements |-> 0]]
    IN BaseAnimation_destroy(w1, i)

\* ---------------------------------------------------- ParallaxAnimation
\* options is what getOptions(element) returned and left in the cache.
setTransform(w, i, e, options) ==
    [w EXCEPT !.mods[i].parsedOptions[e] = options,
              !.dom[e] = [@ EXCEPT !.transform = "moved",
                                   !.cls = (@ \cup {ActiveParallax})
                                           \cup (IF options.class THEN {Custom}
                                                 ELSE {})]]

applyParallaxEffect(w, i, e) ==
    setTransform(w, i, e, getOptionsValue(w.mods[i], w.dom[e], e))

\* The transform applyParallaxEffect computes, [x, y] in billionths of a
\* pixel: options is the options object the parser made of the element,
\* progress and the numbers of the options are in thousandths. Without
\* numbers to compute with the transform is NaN.
DefaultSpeed == 200
PositionStart == 0 - 500
PositionEnd == 1000

parallaxTransform_fromZero(options, windowHeight, progress) ==
    LET given(k, default) == IF get(options, k) # Undef THEN get(options, k)
                             ELSE Num(default)
        speed == given(<<"s", "p", "e", "e", "d">>, DefaultSpeed)
        direction == Or(get(options, <<"d", "i", "r", "e", "c", "t", "i", "o", "n">>), Text(<<"d", "o", "w", "n">>))
        endPosition == given(<<"e", "n", "d">>, PositionEnd)
    IN IF speed.t # "number" \/ endPosition.t # "number" THEN NaN
       ELSE LET pos == progress * speed.n * windowHeight * endPosition.n
            IN IF direction \in {Text(<<"u", "p">>), Text(<<"d", "o", "w", "n">>)}
               THEN [x |-> 0, y |-> IF direction = Text(<<"u", "p">>) THEN 0 - pos ELSE pos]
               ELSE [x |-> IF direction = Text(<<"l", "e", "f", "t">>) THEN 0 - pos ELSE pos, y |-> 0]

parallaxTransform(options, windowHeight, progress) ==
    LET given(k, default) == IF get(options, k) # Undef THEN get(options, k)
                             ELSE Num(default)
        speed == given(<<"s", "p", "e", "e", "d">>, DefaultSpeed)
        direction == Or(get(options, <<"d", "i", "r", "e", "c", "t", "i", "o", "n">>), Text(<<"d", "o", "w", "n">>))
        startPosition == given(<<"s", "t", "a", "r", "t">>, PositionStart)
        endPosition == given(<<"e", "n", "d">>, PositionEnd)
    IN IF speed.t # "number" \/ startPosition.t # "number"
          \/ endPosition.t # "number"
       THEN NaN
       ELSE LET pos == speed.n * windowHeight * startPosition.n * 1000
                       + progress * speed.n * windowHeight * endPosition.n
            IN IF direction \in {Text(<<"u", "p">>), Text(<<"d", "o", "w", "n">>)}
               THEN [x |-> 0, y |-> IF direction = Text(<<"u", "p">>) THEN 0 - pos ELSE pos]
               ELSE [x |-> IF direction = Text(<<"l", "e", "f", "t">>) THEN 0 - pos ELSE pos, y |-> 0]

\* near: the elements whose rectangle is within 100px of the viewport.
RECURSIVE updateEach(_, _, _, _)
updateEach(w, i, els, near) ==
    IF els = << >> THEN w
    ELSE updateEach(IF Head(els) \in near
                    THEN applyParallaxEffect(w, i, Head(els)) ELSE w,
                    i, Tail(els), near)

updateParallaxElements(w, i, near) == updateEach(w, i, w.mods[i].elements, near)

\* After super.register(): the scroll listener is attached once, and the
\* positions are computed when it is.
attachScrollListener(w, i, near) ==
    IF ~w.mods[i].scrollListenerAttached
    THEN updateParallaxElements(
            [w EXCEPT !.mods[i].scrollListeners = @ + 1,
                      !.mods[i].scrollListenerAttached = TRUE],
            i, near)
    ELSE w

ParallaxAnimation_register(w, i, els, near) ==
    attachScrollListener(BaseAnimation_register(w, i, els), i, near)

\* handleScroll without the cancel: every scroll event requests a frame.
handleScroll_noCancel(w, i) ==
    LET w2 == requestAnimationFrame(w, "scroll", i, 0, NoOptions)
    IN [w2 EXCEPT !.mods[i].rafId = w.nextRaf]

handleScroll(w, i) ==
    LET w1 == IF w.mods[i].rafId # 0
              THEN cancelAnimationFrame(w, w.mods[i].rafId) ELSE w
        w2 == requestAnimationFrame(w1, "scroll", i, 0, NoOptions)
    IN [w2 EXCEPT !.mods[i].rafId = w1.nextRaf]

scrollFrame(w, c, near) ==
    [updateParallaxElements(w, c.mod, near) EXCEPT !.mods[c.mod].rafId = 0]

ParallaxAnimation_animate(w, i, e, options) ==
    [w EXCEPT !.dom[e].cls = (@ \cup {ActiveParallax})
                             \cup (IF options.class THEN {Custom} ELSE {})]

\* cached is what getOptions(element) returned and left in the cache.
clearWhenRepeating(w, i, e, options, cached) ==
    IF cached.repeat
    THEN [w EXCEPT !.mods[i].parsedOptions[e] = cached,
                   !.dom[e] = [@ EXCEPT
                       !.transform = "zero",
                       !.cls = (@ \ {ActiveParallax})
                               \ (IF options.class THEN {Custom} ELSE {})]]
    ELSE w

ParallaxAnimation_reset(w, i, e, options) ==
    clearWhenRepeating(w, i, e, options,
                       getOptionsValue(w.mods[i], w.dom[e], e))

\* removeEventListener is handed a fresh bind() result, which is no listener
\* of the window: nothing is detached.
ParallaxAnimation_destroy(w, i) ==
    LET w1 == BaseAnimation_destroy(w, i)
        w2 == [w1 EXCEPT !.mods[i].scrollListenerAttached = FALSE]
    IN IF w2.mods[i].rafId # 0
       THEN [cancelAnimationFrame(w2, w2.mods[i].rafId) EXCEPT !.mods[i].rafId = 0]
       ELSE w2

\* ------------------------------------------------- dispatch over variants
register(w, i, els, near) ==
    IF w.mods[i].kind = "parallax" THEN ParallaxAnimation_register(w, i, els, near)
    ELSE FadeInAnimation_register(w, i, els)

animate(w, i, e, options) ==
    IF w.mods[i].kind = "parallax" THEN ParallaxAnimation_animate(w, i, e, options)
    ELSE FadeInAnimation_animate(w, i, e, options)

reset(w, i, e, options) ==
    IF w.mods[i].kind = "parallax" THEN ParallaxAnimation_reset(w, i, e, options)
    ELSE FadeInAnimation_reset(w, i, e, options)

destroy(w, i) ==
    IF w.mods[i].kind = "parallax" THEN ParallaxAnimation_destroy(w, i)
    ELSE FadeInAnimation_destroy(w, i)

\* The body of handleIntersection's forEach, for one entry.
handleEntry(w, i, entry) ==
    LET e == entry.target
        cached == w.mods[i].parsedOptions[e]
        options == IF cached.has THEN cached ELSE EmptyOptions
    IN IF entry.isIntersecting THEN animate(w, i, e, options)
       ELSE reset(w, i, e, options)

RECURSIVE handleIntersection(_, _, _)
handleIntersection(w, i, entries) ==
    IF entries = << >> \/ w.thrown THEN w
    ELSE handleIntersection(handleEntry(w, i, Head(entries)), i, Tail(entries))

\* ------------------------------------------- host: IntersectionObserver
\* The "update intersection observations" step of a rendering update. v is
\* what the geometry gives for each (margin and threshold, target): "out",
\* "in", or "cross" (still intersecting, at another threshold). An observer
\* queues an entry for a target the first time it computes it, whenever the
\* target starts or stops intersecting, and at every threshold crossing.
GeometryOf(ob) == <<ob.rootMargin, ob.threshold>>

Emits(last, x) ==
    \/ last = "new"
    \/ last = "in" /\ x # "in"
    \/ last = "out" /\ x # "out"

RECURSIVE computeEntries(_, _, _)
computeEntries(ob, v, e) ==
    IF e > NumElements THEN << >>
    ELSE (IF ob.last[e] # "no" /\ Emits(ob.last[e], v[<<GeometryOf(ob), e>>])
          THEN <<[target |-> e,
                  isIntersecting |-> v[<<GeometryOf(ob), e>>] # "out"]>>
          ELSE << >>) \o computeEntries(ob, v, e + 1)

updateIntersectionObservations(w, v) ==
    [w EXCEPT !.obs =
        [o \in 1..Len(w.obs) |->
            IF ~w.obs[o].connected THEN w.obs[o]
            ELSE [w.obs[o] EXCEPT
                    !.queue = @ \o computeEntries(w.obs[o], v, 1),
                    !.last = [e \in Elements |->
                                IF w.obs[o].last[e] = "no" THEN "no"
                                ELSE IF v[<<GeometryOf(w.obs[o]), e>>] = "out"
                                     THEN "out" ELSE "in"]]]]

\* An exception of an earlier callback of the task stays on record.
keepThrown(w, before) == [w EXCEPT !.thrown = before \/ w.thrown]

\* The "notify intersection observers" task: every observer with queued
\* entries has its callback invoked with all of them, in construction order.
RECURSIVE notifyIntersectionObservers(_, _)
notifyIntersectionObservers(w, o) ==
    IF o > Len(w.obs) THEN w
    ELSE notifyIntersectionObservers(
            IF w.obs[o].connected /\ w.obs[o].queue # << >>
            THEN keepThrown(handleIntersection(
                               [w EXCEPT !.obs[o].queue = << >>,
                                         !.thrown = FALSE],
                               w.obs[o].owner, w.obs[o].queue),
                            w.thrown)
            ELSE w,
            o + 1)

\* One rendering frame: the callbacks queued when the frame starts run in
\* order; what they request runs in the next frame.
runCallback(w, c, near) ==
    IF c.kind = "fade1" THEN fadeFirstFrame(w, c)
    ELSE IF c.kind = "fade2" THEN fadeSecondFrame(w, c)
    ELSE scrollFrame(w, c, near)

RECURSIVE runFrame(_, _, _)
runFrame(w, batch, near) ==
    IF batch = << >> THEN w
    ELSE runFrame(runCallback(w, Head(batch), near), Tail(batch), near)

animationFrame(w, near) == runFrame([w EXCEPT !.raf = << >>], w.raf, near)

\* ----------------------------------------------------- AnimationManager
ModuleNames == {"fade-in", "parallax"}

getDefaultName(kind) == IF kind = "parallax" THEN "parallax" ELSE "fade-in"

\* new AnimationManager(config): the parser's configuration, mirrored.
NewManager(cfg) ==
    [config |-> cfg,
     modules |-> [n \in ModuleNames |-> 0],
     initialized |-> FALSE,
     loadTimeout |-> FALSE,
     mutationObserver |-> FALSE,
     initTimers |-> 0,
     debounceTimers |-> 0]

\* use(ModuleClass): new ModuleClass() takes no configuration; the instance
\* is stored under its default name.
AnimationManager_use(w, kind) ==
    [BaseAnimation_constructor(w, kind, DefaultConfig) EXCEPT
        !.mgr.modules[getDefaultName(kind)] = Len(w.mods) + 1]

\* updateConfig that hands the modules the manager's merged configuration.
AnimationManager_updateConfig_whole(w, partial) ==
    [w EXCEPT !.mgr.config = mergeConfig(@, partial),
              !.mods = [i \in 1..Len(w.mods) |->
                          IF \E n \in ModuleNames : w.mgr.modules[n] = i
                          THEN [w.mods[i] EXCEPT
                                  !.config = mergeConfig(w.mgr.config, partial)]
                          ELSE w.mods[i]]]

\* The parser's setConfig merges the partial; the manager mirrors its
\* parser's configuration; each module of the registry merges the partial
\* into the configuration of its own parser.
AnimationManager_updateConfig(w, partial) ==
    [w EXCEPT !.mgr.config = mergeConfig(@, partial),
              !.mods = [i \in 1..Len(w.mods) |->
                          IF \E n \in ModuleNames : w.mgr.modules[n] = i
                          THEN [w.mods[i] EXCEPT
                                  !.config = mergeConfig(@, partial)]
                          ELSE w.mods[i]]]

\* querySelectorAll('[attributeName]'), in document order.
findAllAnimationElements(w) ==
    SelectSeq([e \in 1..NumElements |-> e],
              LAMBDA e : hasAnimationAttributes(w.mgr.config, w.dom[e]))

\* The module the manager's parser routes e to: 0 when the element does not
\* parse or names no registered module.
routedModule(w, e) ==
    LET moduleName == parseModuleName(w.mgr.config, w.dom[e], e)
    IN IF moduleName \in ModuleNames THEN w.mgr.modules[moduleName] ELSE 0

\* The scan loop leaving the forEach at the first element without a module.
RECURSIVE scanElements_stopAtUnknown(_, _, _, _)
scanElements_stopAtUnknown(w, els, checkInitialized, near) ==
    IF els = << >> THEN w
    ELSE LET e == Head(els)
             i == routedModule(w, e)
         IN IF i = 0 THEN w
            ELSE scanElements_stopAtUnknown(
                    IF checkInitialized /\ isInitialized(w.mods[i], w.dom[e])
                    THEN w
                    ELSE register(w, i, <<e>>, near),
                    Tail(els), checkInitialized, near)

\* The scan loop shared by init() and initDynamicElements(); checkInitialized
\* tells which of the two bodies runs.
RECURSIVE scanElements(_, _, _, _)
scanElements(w, els, checkInitialized, near) ==
    IF els = << >> THEN w
    ELSE LET e == Head(els)
             i == routedModule(w, e)
             w1 == IF i = 0 THEN w
                   ELSE IF checkInitialized /\ isInitialized(w.mods[i], w.dom[e])
                        THEN w
                        ELSE register(w, i, <<e>>, near)
         IN scanElements(w1, Tail(els), checkInitialized, near)

\* initDynamicElements without the reduced-motion test.
initDynamicElements_noGate(w, prefersReducedMotion, near) ==
    IF ~w.mgr.initialized THEN w
    ELSE scanElements(w, findAllAnimationElements(w), TRUE, near)

initDynamicElements(w, prefersReducedMotion, near) ==
    IF ~w.mgr.initialized \/ prefersReducedMotion THEN w
    ELSE scanElements(w, findAllAnimationElements(w), TRUE, near)

\* init() without the test of the initialized flag.
AnimationManager_init_unguarded(w, prefersReducedMotion, near) ==
    LET w1 == IF prefersReducedMotion THEN [w EXCEPT !.logged = TRUE]
              ELSE scanElements(w, findAllAnimationElements(w), FALSE, near)
    IN [w1 EXCEPT !.mgr.mutationObserver = TRUE,
                  !.mgr.initialized = TRUE,
                  !.mgr.initTimers = @ + 1]

AnimationManager_init(w, prefersReducedMotion, near) ==
    IF w.mgr.initialized THEN w
    ELSE LET w1 == IF prefersReducedMotion THEN [w EXCEPT !.logged = TRUE]
                   ELSE scanElements(w, findAllAnimationElements(w), FALSE, near)
         IN [w1 EXCEPT !.mgr.mutationObserver = TRUE,
                       !.mgr.initialized = TRUE,
                       !.mgr.initTimers = @ + 1]

RECURSIVE destroyModules(_, _)
destroyModules(w, names) ==
    IF names = {} THEN w
    ELSE LET n == CHOOSE x \in names : TRUE
         IN destroyModules(IF w.mgr.modules[n] = 0 THEN w
                           ELSE destroy(w, w.mgr.modules[n]),
                           names \ {n})

\* window.clearTimeout(this.loadTimeout): the debounce timer the handle names
\* is pending whenever the handle is set.
clearLoadTimeout(w) ==
    IF w.mgr.loadTimeout
    THEN [w EXCEPT !.mgr.debounceTimers = @ - 1, !.mgr.loadTimeout = FALSE,
                   !.burst = 0]
    ELSE w

\* destroy() without the modules.forEach: the registry is dropped, the
\* instances are left as they are.
AnimationManager_destroy_registryOnly(w) ==
    BaseAnimation_cleanup(
        [clearLoadTimeout(w) EXCEPT
            !.mgr.mutationObserver = FALSE,
            !.mgr.modules = [n \in ModuleNames |-> 0],
            !.mgr.initialized = FALSE])

\* The post-init timer is not held anywhere, so destroy() leaves it pending.
AnimationManager_destroy(w) ==
    BaseAnimation_cleanup(
        [destroyModules(clearLoadTimeout(w), ModuleNames) EXCEPT
            !.mgr.loadTimeout = FALSE,
            !.mgr.mutationObserver = FALSE,
            !.mgr.modules = [n \in ModuleNames |-> 0],
            !.mgr.initialized = FALSE])

\* An added node: el is the fixture element it is (wrapped = FALSE) or
\* contains (wrapped = TRUE); el = 0 is a node with neither.
AddedNode(e, wrapped) == [el |-> e, wrapped |-> wrapped]

AddedNodes ==
    {AddedNode(0, FALSE)}
        \cup {AddedNode(e, wrapped) : e \in Elements, wrapped \in BOOLEAN}

\* The test the callback makes on an added node: the node itself carries the
\* attribute, or querySelector('[attributeName]') finds a descendant.
needsUpdate(w, node) ==
    IF node.el = 0 THEN FALSE
    ELSE IF ~node.wrapped THEN hasAnimationAttributes(w.mgr.config, w.dom[node.el])
    ELSE /\ w.mgr.config.attributeName # ""
         /\ w.dom[node.el].present
         /\ w.dom[node.el].attr = w.mgr.config.attributeName

\* The callback without clearTimeout: every batch starts one more timer.
mutationCallback_noClear(w, node) ==
    IF w.mgr.mutationObserver /\ needsUpdate(w, node)
    THEN [w EXCEPT !.mgr.debounceTimers = @ + 1, !.mgr.loadTimeout = TRUE,
                   !.burst = w.burst + 1]
    ELSE w

\* The MutationObserver callback for a batch that adds one node: when the
\* node needs an update the pending debounce timer is cleared and a new one
\* is started.
mutationCallback(w, node) ==
    IF w.mgr.mutationObserver /\ needsUpdate(w, node)
    THEN LET w1 == clearLoadTimeout(w)
         IN [w1 EXCEPT !.mgr.debounceTimers = @ + 1, !.mgr.loadTimeout = TRUE,
                       !.burst = w.burst + 1]
    ELSE w

\* animationManager.update(): the class has no such member, the call raises
\* a TypeError and nothing of the manager changes.
AnimationManager_update(w) == [w EXCEPT !.thrown = TRUE]

\* The window is resized to height h: the resize listeners run.
resizeEvent(w, h) ==
    LET w1 == [w EXCEPT !.win.innerHeight = h]
    IN IF w1.win.resizeListeners # << >> THEN updateWindowDimensions(w1) ELSE w1

\* ------------------------------------------------------------------ state
VARIABLES
    mods,     \* module instances ever constructed, in construction order
    obs,      \* IntersectionObservers ever constructed, in construction order
    dom,      \* per element: markup token, classes, inline style, listeners
    raf,      \* frame callbacks requested and not yet run or cancelled
    nextRaf,  \* the id the next requestAnimationFrame returns
    mgr,      \* the AnimationManager
    age,      \* per element: frames since its last intersecting entry
    win,      \* the window's resize listeners and height, BaseAnimation's statics
    thrown,   \* the last call ended in an uncaught TypeError
    logged,   \* the last call wrote "animations disabled" to the console
    burst,    \* batches that (re)started the debounce timers now pending
    parser,   \* an AttributeParser: [config, commonAttributes]
    element,  \* the attributes of the element it is given, in document order
    result    \* what its last call returned

vars == <<mods, obs, dom, raf, nextRaf, mgr, age, win, thrown, logged, burst,
          parser, element, result>>

\* A call starts with no exception raised and nothing logged.
World ==
    [mods |-> mods, obs |-> obs, dom |-> dom, raf |-> raf, nextRaf |-> nextRaf,
     mgr |-> mgr, win |-> win, thrown |-> FALSE, logged |-> FALSE,
     burst |-> burst]

SetWorld(w) ==
    /\ mods' = w.mods
    /\ obs' = w.obs
    /\ dom' = w.dom
    /\ raf' = w.raf
    /\ nextRaf' = w.nextRaf
    /\ mgr' = w.mgr
    /\ win' = w.win
    /\ thrown' = w.thrown
    /\ logged' = w.logged
    /\ burst' = w.burst
    /\ UNCHANGED <<parser, element, result>>

\* The caps of the model, as a guard on the state an action leads to.
WithinBounds(w) ==
    /\ Len(w.obs) <= MaxObservers
    /\ \A o \in 1..Len(w.obs) : Len(w.obs[o].queue) <= MaxQueue
    /\ w.nextRaf <= MaxRaf + 1
    /\ Len(w.mods) <= MaxModules
    /\ w.mgr.initTimers <= MaxTimers
    /\ w.mgr.debounceTimers <= MaxTimers
    /\ \A i \in 1..Len(w.mods) :
          /\ Len(w.mods[i].elements) <=
                IF \E e \in Elements :
                      w.dom[e].duration # Null \/ w.dom[e].delay # Null
                THEN MaxTimedRoster ELSE MaxRoster
          /\ w.mods[i].scrollListeners <= MaxScrollListeners

\* The step to world w, when w is within the caps.
BoundedStep(w) == WithinBounds(w) /\ SetWorld(w)

NewElement(e, token, present) ==
    [present |-> present,
     attr |-> IF ElemHasAttr(e) THEN token ELSE "none",
     cls |-> {},
     opacity |-> Undefined,
     transition |-> FALSE,
     running |-> FALSE,
     listeners |-> {},
     transform |-> "",
     inview |-> ElemInview(e),
     duration |-> Null,
     delay |-> Null]

NoManager == NewManager(DefaultConfig)

\* The parser of the specification that exercises it alone, at rest.
ParserDefaultConfig ==
    [attributeName |-> <<"k", "w">>, defaultAnimation |-> <<"f", "a", "d", "e", "-", "i", "n">>]

NoResult == [op |-> "none"]

ParserIdle ==
    /\ parser = NewParser(ParserDefaultConfig)
    /\ element = << >>
    /\ result = NoResult

\* The window and the statics when the classes have been loaded, and once a
\* first instance has been constructed.
Heights == {1, 2}

WindowLoaded(h) ==
    [resizeListeners |-> << >>, resizeListenerAttached |-> FALSE,
     innerHeight |-> h, windowHeight |-> h]

WindowListening(h) ==
    [resizeListeners |-> <<"handleResize">>, resizeListenerAttached |-> TRUE,
     innerHeight |-> h, windowHeight |-> h]

\* register() takes one element or an array of them (the array may be empty).
RegisterInputs ==
    {<< >>} \cup {<<e>> : e \in Elements}
        \cup {<<a, b>> : a \in Elements, b \in Elements}

\* age[e] is 1 once an intersecting entry for a registered e was handled, 2 one frame
\* later, and 0 again after the second frame, or as soon as a not-intersecting
\* entry for e or a destroy() follows. It records what happened; nothing in
\* the program reads it.
NoAge == [e \in Elements |-> 0]

\* burst counts the mutation batches that needed an update since a debounce
\* timer was last started with none pending. Like age it records what
\* happened; nothing in the program reads it.

Range(q) == {q[k] : k \in 1..Len(q)}

\* Geometry is read by the parallax recompute only.
NearInputs ==
    IF \E i \in 1..Len(mods) : mods[i].kind = "parallax"
    THEN SUBSET Elements ELSE {{}}

\* What a scan reads of its environment: the reduced-motion preference and,
\* when it registers, the geometry.
ScanInputs ==
    {<<TRUE, {}>>} \cup {<<FALSE, near>> : near \in NearInputs}

\* ---------------------------------------------- actions on one module
\* A caller registers elements with module instance i directly.
Register(i, els, near) ==
    /\ BoundedStep(register(World, i, els, near))
    /\ UNCHANGED age

Destroy(i) ==
    /\ SetWorld(destroy(World, i))
    /\ age' = NoAge

\* The entries the next notification delivers, in delivery order, each
\* with the instance it is delivered to.
RECURSIVE Pending(_)
Pending(o) ==
    IF o > Len(obs) THEN << >>
    ELSE (IF obs[o].connected
          THEN [k \in 1..Len(obs[o].queue) |->
                   [target |-> obs[o].queue[k].target,
                    isIntersecting |-> obs[o].queue[k].isIntersecting,
                    owner |-> obs[o].owner]]
          ELSE << >>) \o Pending(o + 1)

\* The last entry for e among them: "in", "out", or "none".
LastPending(e) ==
    LET q == SelectSeq(Pending(1), LAMBDA x : x.target = e)
    IN IF q = << >> THEN "none"
       ELSE IF ~q[Len(q)].isIntersecting THEN "out"
       ELSE IF e \in Range(mods[q[Len(q)].owner].elements) THEN "in"
       ELSE "stray"

\* The observers' callbacks run with what they have queued.
Notify ==
    /\ Pending(1) # << >>
    /\ BoundedStep(
          notifyIntersectionObservers(World, 1))
    /\ age' = [e \in Elements |->
                  CASE thrown' -> 0
                    [] LastPending(e) = "in" -> 1
                    [] LastPending(e) = "none" -> age[e]
                    [] OTHER -> 0]

\* What the geometry can give in one rendering update: a value for every
\* (margin and threshold, target) some connected observer watches; "cross"
\* where one of them saw the target intersecting before.
Watching(g, e, states) ==
    \E o \in 1..Len(obs) :
        obs[o].connected /\ GeometryOf(obs[o]) = g /\ obs[o].last[e] \in states

Observable ==
    {x \in {<<GeometryOf(obs[o]), e>> : o \in 1..Len(obs), e \in Elements} :
        Watching(x[1], x[2], {"new", "in", "out"})}

Observations ==
    {v \in [Observable -> {"out", "in", "cross"}] :
        \A x \in Observable : v[x] = "cross" => Watching(x[1], x[2], {"in"})}

\* One rendering update: the frame callbacks run, then the observers compute
\* their entries.
AnimationFrame(near, v) ==
    /\ BoundedStep(
          updateIntersectionObservations(animationFrame(World, near), v))
    /\ age' = [e \in Elements |-> IF age[e] = 1 THEN 2 ELSE 0]

TransitionEnd(e) ==
    /\ dom[e].running
    /\ dom' = [dom EXCEPT ![e] = transitionEnd(@)]
    /\ UNCHANGED <<mods, obs, raf, nextRaf, mgr, age, win, thrown, logged, burst,
                   parser, element, result>>

\* A window scroll event: every attached scroll listener runs handleScroll.
RECURSIVE scrollTimes(_, _, _)
scrollTimes(w, i, n) ==
    IF n = 0 THEN w ELSE scrollTimes(handleScroll(w, i), i, n - 1)

RECURSIVE scrollEvent(_, _)
scrollEvent(w, i) ==
    IF i > Len(w.mods) THEN w
    ELSE scrollEvent(scrollTimes(w, i, w.mods[i].scrollListeners), i + 1)

Scroll ==
    /\ \E i \in 1..Len(mods) : mods[i].scrollListeners > 0
    /\ BoundedStep(
          scrollEvent(World, 1))
    /\ UNCHANGED age

\* -------------------------------- specification: one module instance
\* A fade or a parallax instance, constructed directly and driven by its
\* caller, its observers, the frame clock, transition ends and scrolling.
InitModule ==
    /\ \E kind \in {"fade", "parallax"} : mods = <<NewModule(kind, DefaultConfig)>>
    /\ obs = << >>
    /\ dom = [e \in Elements |-> NewElement(e, DEFAULT_attributeName, TRUE)]
    /\ raf = << >>
    /\ nextRaf = 1
    /\ mgr = NoManager
    /\ age = NoAge
    /\ win = WindowListening(1)
    /\ thrown = FALSE
    /\ logged = FALSE
    /\ burst = 0
    /\ ParserIdle


NextModule ==
    \/ \E els \in RegisterInputs, near \in NearInputs : Register(1, els, near)
    \/ Destroy(1)
    \/ Notify
    \/ \E near \in NearInputs, v \in Observations :
          AnimationFrame(near, v)
    \/ \E e \in Elements : TransitionEnd(e)
    \/ Scroll

SpecModule == InitModule /\ [][NextModule]_vars

\* ------------------- specification: a fade instance, malformed markup
\* A fade instance that is registered with, notified and never destroyed,
\* with one element whose duration or delay attribute is written without a
\* time: empty, "true", or a JSON array.
MalformedTimes ==
    {<<"duration", << >>                >>,
     <<"delay",    <<"t", "r", "u", "e">> >>,
     <<"duration", <<"[", "1", "]">>    >>}

InitMalformed ==
    /\ mods = <<NewModule("fade", DefaultConfig)>>
    /\ obs = << >>
    /\ \E bad \in Elements, a \in MalformedTimes :
          dom = [e \in Elements |->
                   LET d == NewElement(e, DEFAULT_attributeName, TRUE)
                   IN IF e # bad THEN d
                      ELSE IF a[1] = "duration" THEN [d EXCEPT !.duration = a[2]]
                      ELSE [d EXCEPT !.delay = a[2]]]
    /\ raf = << >>
    /\ nextRaf = 1
    /\ mgr = NoManager
    /\ age = NoAge
    /\ win = WindowListening(1)
    /\ thrown = FALSE
    /\ logged = FALSE
    /\ burst = 0
    /\ ParserIdle

NextMalformed ==
    \/ \E els \in RegisterInputs : Register(1, els, {})
    \/ Notify
    \/ \E v \in Observations : AnimationFrame({}, v)

SpecMalformed == InitMalformed /\ [][NextMalformed]_vars

\* ------------------------------------- actions on the AnimationManager
Use(kind) ==
    /\ BoundedStep(AnimationManager_use(World, kind))
    /\ UNCHANGED age

UpdateConfig(token) ==
    /\ SetWorld(AnimationManager_updateConfig(World, [attributeName |-> token]))
    /\ UNCHANGED age

ManagerInit(prefersReducedMotion, near) ==
    /\ ~mgr.initialized
    /\ BoundedStep(
          AnimationManager_init(World, prefersReducedMotion, near))
    /\ UNCHANGED age

ManagerDestroy ==
    /\ SetWorld(AnimationManager_destroy(World))
    /\ age' = NoAge

\* The timer init() started 1000 ms ago fires.
InitTimer(prefersReducedMotion, near) ==
    /\ mgr.initTimers > 0
    /\ BoundedStep(
          initDynamicElements([World EXCEPT !.mgr.initTimers = @ - 1],
                                    prefersReducedMotion, near))
    /\ UNCHANGED age

\* The debounce timer of the mutation callback fires.
Debounce(prefersReducedMotion, near) ==
    /\ mgr.debounceTimers > 0
    /\ BoundedStep(
          [initDynamicElements([World EXCEPT !.mgr.debounceTimers = @ - 1],
                                     prefersReducedMotion, near)
                    EXCEPT !.mgr.loadTimeout = FALSE,
                           !.burst = IF mgr.debounceTimers = 1 THEN 0 ELSE @])
    /\ UNCHANGED age

\* A script inserts a node into the document: element e, a node that
\* contains e, or a node without any animation attribute.
MutationAdds(node) ==
    /\ node.el # 0 => ~dom[node.el].present
    /\ BoundedStep(
          mutationCallback(
                    IF node.el = 0 THEN World
                    ELSE [World EXCEPT !.dom[node.el].present = TRUE],
                    node))
    /\ UNCHANGED age

\* ------------------------------------ specification: a manager run
\* A manager constructed with the default or a custom attribute name, over a
\* document whose markup uses that name; the last element is inserted later.
\* init() is called here when no post-init timer of an earlier init() is
\* still pending; SpecLifecycle covers the other case.
CustomAttributeName == "data-anim"

InitManager ==
    /\ \E token \in {DEFAULT_attributeName, CustomAttributeName} :
          /\ mgr = NewManager([attributeName |-> token,
                               defaultAnimation |-> DEFAULT_defaultAnimation])
          /\ dom = [e \in Elements |-> NewElement(e, token, e # NumElements)]
    /\ mods = << >>
    /\ obs = << >>
    /\ raf = << >>
    /\ nextRaf = 1
    /\ age = NoAge
    /\ win = WindowLoaded(1)
    /\ thrown = FALSE
    /\ logged = FALSE
    /\ burst = 0
    /\ ParserIdle

NextManager ==
    \/ \E kind \in {"fade", "parallax"} : Use(kind)
    \/ \E token \in {DEFAULT_attributeName, CustomAttributeName} : UpdateConfig(token)
    \/ \E in \in ScanInputs : mgr.initTimers = 0 /\ ManagerInit(in[1], in[2])
    \/ ManagerDestroy
    \/ \E in \in ScanInputs : InitTimer(in[1], in[2])
    \/ \E in \in ScanInputs : Debounce(in[1], in[2])
    \/ \E e \in Elements, wrapped \in BOOLEAN : MutationAdds(AddedNode(e, wrapped))
    \/ Notify
    \/ \E near \in NearInputs, v \in Observations : AnimationFrame(near, v)
    \/ \E e \in Elements : TransitionEnd(e)
    \/ Scroll

SpecManager == InitManager /\ [][NextManager]_vars

\* ------------------------- specification: a manager reconfigured
\* The manager of the specification above with modules put in its registry,
\* partial configurations applied and the registry cleared by destroy().
ConfigPartials ==
    {[attributeName |-> DEFAULT_attributeName],
     [attributeName |-> CustomAttributeName],
     [defaultAnimation |-> "parallax"],
     [defaultAnimation |-> DEFAULT_defaultAnimation],
     [attributeName |-> CustomAttributeName, defaultAnimation |-> "parallax"]}

UpdateConfigPartial(partial) ==
    /\ SetWorld(AnimationManager_updateConfig(World, partial))
    /\ UNCHANGED age

NextConfig ==
    \/ \E kind \in {"fade", "parallax"} : Use(kind)
    \/ \E partial \in ConfigPartials : UpdateConfigPartial(partial)
    \/ ManagerDestroy

SpecConfig == InitManager /\ [][NextConfig]_vars

\* ------------------------- specification: the lifecycle of a page
\* A manager next to a parallax instance the page constructed directly
\* and never destroys (instance 1). The document starts empty and scripts insert nodes; the
\* manager is initialised, updated and destroyed in any order, its timers
\* fire, the window is resized.
ManagerUpdate ==
    /\ SetWorld(AnimationManager_update(World))
    /\ UNCHANGED age

Resize(h) ==
    /\ h # win.innerHeight
    /\ SetWorld(resizeEvent(World, h))
    /\ UNCHANGED age

InitLifecycle ==
    /\ \E token \in {DEFAULT_attributeName, CustomAttributeName} :
          /\ mgr = NewManager([attributeName |-> token,
                               defaultAnimation |-> DEFAULT_defaultAnimation])
          /\ dom = [e \in Elements |-> NewElement(e, token, FALSE)]
    /\ mods = <<NewModule("parallax", DefaultConfig)>>
    /\ obs = << >>
    /\ raf = << >>
    /\ nextRaf = 1
    /\ age = NoAge
    /\ win = WindowListening(1)
    /\ thrown = FALSE
    /\ logged = FALSE
    /\ burst = 0
    /\ ParserIdle

NextLifecycle ==
    \/ \E kind \in {"fade", "parallax"} : Use(kind)
    \/ \E in \in ScanInputs : ManagerInit(in[1], in[2])
    \/ ManagerUpdate
    \/ ManagerDestroy
    \/ \E in \in ScanInputs : InitTimer(in[1], in[2])
    \/ \E in \in ScanInputs : Debounce(in[1], in[2])
    \/ \E node \in AddedNodes : MutationAdds(node)
    \/ \E e \in Elements, near \in NearInputs : Register(1, <<e>>, near)
    \/ \E h \in Heights : Resize(h)

SpecLifecycle == InitLifecycle /\ [][NextLifecycle]_vars

\* ------------------- specification: an instance and an inview value
\* A fade or a parallax instance that is registered with and destroyed,
\* over a document whose first element carries an inview attribute: a
\* whole percentage, or a value the parser has to turn down.
MaxPercentLen == 3      \* digits of a percentage built from PercentDigits

PercentDigits == {"0", "1", "5"}

InviewValues ==
    {digits \o <<"%">> :
        digits \in UNION {[1..n -> PercentDigits] : n \in 1..MaxPercentLen}}
    \cup {<<"-", "5", "%">>, <<"5", ".", "5", "%">>, <<"5", "t", "%">>, <<"t", "%">>, <<"%">>, <<"5", "0">>, <<"0">>, << >>, <<"t", "r", "u", "e">>}

InitInview ==
    /\ \E kind \in {"fade", "parallax"} : mods = <<NewModule(kind, DefaultConfig)>>
    /\ obs = << >>
    /\ \E raw \in InviewValues :
          dom = [e \in Elements |->
                   LET d == NewElement(e, DEFAULT_attributeName, TRUE)
                   IN IF e = 1 THEN [d EXCEPT !.inview = raw] ELSE d]
    /\ raf = << >>
    /\ nextRaf = 1
    /\ mgr = NoManager
    /\ age = NoAge
    /\ win = WindowListening(1)
    /\ thrown = FALSE
    /\ logged = FALSE
    /\ burst = 0
    /\ ParserIdle

NextInview ==
    \/ \E els \in RegisterInputs : Register(1, els, {})
    \/ Destroy(1)

SpecInview == InitInview /\ [][NextInview]_vars

NotParser == <<mods, obs, dom, raf, nextRaf, mgr, age, win, thrown, logged, burst>>

\* --------------------------- specification: the parallax transform
\* A parallax element with a speed, a direction and start and end factors,
\* or none of them, parsed with the default parser, in a window of some
\* height; the transform is computed at one traversal progress after another.
ProgressSteps == 10     \* the traversal in steps of a tenth

ParallaxMarkups ==
    {<<[name |-> <<"k", "w">>, value |-> <<"p", "a", "r", "a", "l", "l", "a", "x">>]>> \o speed \o direction \o factors :
        speed \in {<< >>} \cup
            {<<[name |-> <<"k", "w", "-", "s", "p", "e", "e", "d">>, value |-> v]>> :
                v \in {<<"0", ".", "2">>, <<"0", ".", "5">>, <<"1">>, <<"-", "0", ".", "2">>}},
        direction \in {<< >>} \cup
            {<<[name |-> <<"k", "w", "-", "d", "i", "r", "e", "c", "t", "i", "o", "n">>, value |-> v]>> :
                v \in {<<"u", "p">>, <<"d", "o", "w", "n">>, <<"l", "e", "f", "t">>}},
        factors \in {<< >>,
                     <<[name |-> <<"k", "w", "-", "s", "t", "a", "r", "t">>, value |-> <<"0">>]>>,
                     <<[name |-> <<"k", "w", "-", "e", "n", "d">>, value |-> <<"0", ".", "5">>]>>}}

InitParallax ==
    /\ mods = << >>
    /\ obs = << >>
    /\ dom = [e \in Elements |-> NewElement(e, DEFAULT_attributeName, FALSE)]
    /\ raf = << >>
    /\ nextRaf = 1
    /\ mgr = NoManager
    /\ age = NoAge
    /\ \E h \in Heights : win = WindowLoaded(h)
    /\ thrown = FALSE
    /\ logged = FALSE
    /\ burst = 0
    /\ parser = NewParser(ParserDefaultConfig)
    /\ element \in ParallaxMarkups
    /\ result = NoResult

ParallaxOptions == AttributeParser_parseElementOptions(parser, element).options

ApplyParallaxEffect(progress) ==
    /\ result' = [op |-> "applyParallaxEffect", progress |-> progress,
                  transform |-> parallaxTransform(ParallaxOptions,
                                                  win.windowHeight, progress)]
    /\ UNCHANGED <<parser, element, NotParser>>

NextParallax ==
    \E k \in 0..ProgressSteps :
        ApplyParallaxEffect((k * 1000) \div ProgressSteps)

SpecParallax == InitParallax /\ [][NextParallax]_vars

\* ----------------------------------- specification: the parser alone
\* An AttributeParser constructed with some configuration and handed one
\* element: the primary attribute (or none), and an option written in its
\* module-scoped form, in its generic form, or both, in either order. The
\* parser is reconfigured, its common table extended, the element parsed.
\* Or the element carries one attribute with a raw string for its value, and
\* parseAttributeValue is applied to the values of the element's attributes.
MaxRawLen == 3          \* length of the raw strings built from RawAlphabet
MaxAdded == 1           \* common-table entries added at run time

RawAlphabet == {"-", ".", "0", "5", "t", "{", "}", "[", "]"}

RawSamples ==
    {<<"t", "r", "u", "e">>, <<"f", "a", "l", "s", "e">>, <<"-", "0", ".", "5">>, <<"1", ".", "2", "5">>, <<"9", "0", "0">>, <<"5", "0", "%">>, <<"0", ".", "5", "s">>,
     <<"[", "1", ",", "5", "]">>, <<"[", "1", ",", "]">>, <<"{", "\"", "a", "\"", ":", "1", "}">>, <<"{", "a", ":", "1", "}">>, <<"[", "\"", "t", "\"", "]">>, <<"[", "t", "r", "u", "e", "]">>}

RawStrings ==
    UNION {[1..n -> RawAlphabet] : n \in 0..MaxRawLen} \cup RawSamples

ParserConfigs ==
    {[attributeName |-> a, defaultAnimation |-> d] :
        a \in {<<"k", "w">>, <<"f", "x">>}, d \in {<<"f", "a", "d", "e", "-", "i", "n">>, << >>}}

Partials ==
    {[attributeName |-> <<"f", "x">>], [defaultAnimation |-> << >>],
     [attributeName |-> <<"k", "w">>, defaultAnimation |-> <<"f", "a", "d", "e", "-", "i", "n">>]}

\* Values of the primary attribute; Null is an element without it.
Primaries == {Null, << >>, <<"f", "a", "d", "e", "-", "i", "n">>, <<"p", "a", "r", "a", "l", "l", "a", "x">>, <<"z", "o", "o", "m">>}

OptionSuffixes ==
    {CommonAttributes[k].attributeSuffix : k \in 1..Len(CommonAttributes)}
        \cup {<<"o", "f", "f", "s", "e", "t", "-", "t", "o", "p">>}

OptionValues == {<<"9", "0", "0">>, <<"5", "0", "%">>}

\* Entries a page may add to the common table.
AddedAttributes ==
    {[attributeSuffix |-> <<"t", "o">>, optionName |-> <<"d", "u", "r", "a", "t", "i", "o", "n">>],
     [attributeSuffix |-> <<"p", "a", "c", "e">>, optionName |-> <<"s", "p", "e", "e", "d">>]}

\* The markup uses the default attribute name, and "fade-in" in the name of
\* a module-scoped attribute.
Markup(primary, suffix, scoped, generic, scopedFirst) ==
    LET a == IF primary = Null THEN << >>
             ELSE <<[name |-> <<"k", "w">>, value |-> primary]>>
        s == IF scoped = Null THEN << >>
             ELSE <<[name |-> <<"k", "w", "-", "f", "a", "d", "e", "-", "i", "n", "-">> \o suffix, value |-> scoped]>>
        g == IF generic = Null THEN << >>
             ELSE <<[name |-> <<"k", "w", "-">> \o suffix, value |-> generic]>>
    IN a \o (IF scopedFirst THEN s \o g ELSE g \o s)

Markups ==
    {Markup(primary, suffix, scoped, generic, scopedFirst) :
        primary \in Primaries, suffix \in OptionSuffixes,
        scoped \in OptionValues \cup {Null},
        generic \in OptionValues \cup {Null},
        scopedFirst \in BOOLEAN}

\* A parallax element with the bare module attribute kw-parallax="0.3", the
\* attribute kw-parallax-value="0.3", the generic kw-speed="900", or several
\* of them.
ShorthandMarkup(bare, value, speed) ==
    <<[name |-> <<"k", "w">>, value |-> <<"p", "a", "r", "a", "l", "l", "a", "x">>]>>
    \o (IF bare THEN <<[name |-> <<"k", "w", "-", "p", "a", "r", "a", "l", "l", "a", "x">>,
                        value |-> <<"0", ".", "3">>]>>
        ELSE << >>)
    \o (IF value THEN <<[name |-> <<"k", "w", "-", "p", "a", "r", "a", "l", "l", "a", "x", "-", "v", "a", "l", "u", "e">>,
                         value |-> <<"0", ".", "3">>]>>
        ELSE << >>)
    \o (IF speed THEN <<[name |-> <<"k", "w", "-", "s", "p", "e", "e", "d">>,
                         value |-> <<"9", "0", "0">>]>>
        ELSE << >>)

ShorthandMarkups ==
    {ShorthandMarkup(bare, value, speed) : bare, value, speed \in BOOLEAN}

RawMarkups == {<<[name |-> <<"k", "w", "-", "e", "a", "s", "i", "n", "g">>, value |-> raw]>> : raw \in RawStrings}

InitParser ==
    /\ mods = << >>
    /\ obs = << >>
    /\ dom = [e \in Elements |-> NewElement(e, DEFAULT_attributeName, FALSE)]
    /\ raf = << >>
    /\ nextRaf = 1
    /\ mgr = NoManager
    /\ age = NoAge
    /\ win = WindowLoaded(1)
    /\ thrown = FALSE
    /\ logged = FALSE
    /\ burst = 0
    /\ \E cfg \in ParserConfigs : parser = NewParser(cfg)
    /\ element \in Markups \cup RawMarkups \cup ShorthandMarkups
    /\ result = NoResult

SetConfig(partial) ==
    /\ parser' = AttributeParser_setConfig(parser, partial)
    /\ result' = [op |-> "setConfig"]
    /\ UNCHANGED <<element, NotParser>>

AddCommonAttribute(mapping) ==
    /\ Len(parser.commonAttributes) < Len(CommonAttributes) + MaxAdded
    /\ parser' = AttributeParser_addCommonAttribute(
                     parser, mapping.attributeSuffix, mapping.optionName)
    /\ result' = [op |-> "addCommonAttribute"]
    /\ UNCHANGED <<element, NotParser>>

ParseElementOptions ==
    /\ result' = [op |-> "parseElementOptions",
                  value |-> AttributeParser_parseElementOptions(parser, element)]
    /\ UNCHANGED <<parser, element, NotParser>>

\* parseAttributeValue applied to the value of the k-th attribute.
ParseAttributeValue(k) ==
    /\ result' = [op |-> "parseAttributeValue", raw |-> element[k].value,
                  value |-> parseAttributeValue(element[k].value)]
    /\ UNCHANGED <<parser, element, NotParser>>

NextParser ==
    \/ \E partial \in Partials : SetConfig(partial)
    \/ \E mapping \in AddedAttributes : AddCommonAttribute(mapping)
    \/ ParseElementOptions
    \/ \E k \in 1..Len(element) : ParseAttributeValue(k)

SpecParser == InitParser /\ [][NextParser]_vars

\* ================================================================ claims
\* The observers instance i constructed that are still connected.
ConnectedObservers(i) ==
    {o \in 1..Len(obs) : obs[o].owner = i /\ obs[o].connected}

\* e is a target of the observer instance i holds.
Observed(i, e) ==
    /\ mods[i].observer # 0
    /\ obs[mods[i].observer].connected
    /\ obs[mods[i].observer].last[e] # "no"

RegisterPost(i, els) ==
    \A e \in Range(els) :
        hasAnimationAttributes(mods[i].config, dom[e]) =>
            /\ e \in Range(mods[i].elements)
            /\ mods[i].parsedOptions[e].has
            /\ Observed(i, e)

\* C1: when register(els) returns, every element of els that carries the
\* primary attribute is in the roster, has a cached option record and is a
\* target of the instance's observer; on every call, the first one included.
C1_RegisterPostcondition ==
    [][\A els \in RegisterInputs :
          (\E near \in NearInputs : Register(1, els, near)) => RegisterPost(1, els)']_vars

\* C2: an instance has at most one connected observer at any time, and a
\* register call on an instance that holds an observer neither constructs a
\* new observer nor replaces the one held.
C2_OneObserver ==
    [][/\ Cardinality(ConnectedObservers(1)') <= 1
       /\ \A els \in RegisterInputs :
             (mods[1].observer # 0 /\ (\E near \in NearInputs : Register(1, els, near))) =>
                 /\ mods'[1].observer = mods[1].observer
                 /\ Len(obs') = Len(obs)]_vars

\* C3: init() of a manager constructed with a custom attribute name, reduced
\* motion off, leaves every present element that carries that attribute and
\* names a registered module in that module's roster with a cached option
\* record.
C3_CustomAttributeRegistered ==
    [][(/\ mgr.config.attributeName # DEFAULT_attributeName
        /\ \E near \in NearInputs : ManagerInit(FALSE, near))
       => \A e \in Elements :
             (/\ hasAnimationAttributes(mgr.config, dom[e])
              /\ routedModule(World, e) # 0)
             => /\ e \in Range(mods'[routedModule(World, e)].elements)
                /\ mods'[routedModule(World, e)].parsedOptions[e].has]_vars

Occurrences(q, e) == Cardinality({k \in 1..Len(q) : q[k] = e})

\* C4: no scan of the manager (init(), the post-init timer, the debounced
\* re-scan) registers an element its module already reports as initialized:
\* the module's roster holds it as often as before and no observer of the
\* module starts to watch it.
C4_ScanSkipsInitialized ==
    [][(\E rm \in BOOLEAN, near \in NearInputs :
            ManagerInit(rm, near) \/ InitTimer(rm, near) \/ Debounce(rm, near))
       => \A e \in Elements :
             LET i == routedModule(World, e)
             IN (i # 0 /\ isInitialized(mods[i], dom[e]))
                => /\ Occurrences(mods'[i].elements, e) = Occurrences(mods[i].elements, e)
                   /\ \A o \in 1..Len(obs') :
                         (obs'[o].owner = i /\ obs'[o].last[e] # "no")
                         => (o <= Len(obs) /\ obs[o].last[e] # "no")]_vars

\* C10: when destroy() returns, the roster and the options cache are empty,
\* the observer reference is null and no observer the instance constructed
\* is still connected (so none can call back into it).
C10_DestroyDisconnects ==
    [][Destroy(1) =>
          (/\ mods[1].elements = << >>
           /\ \A e \in Elements : ~mods[1].parsedOptions[e].has
           /\ mods[1].observer = 0
           /\ ConnectedObservers(1) = {})']_vars

\* The fade frame callbacks queued for element e (first or second frame).
FadeCallbacks(e) ==
    {k \in 1..Len(raf) : raf[k].el = e /\ raf[k].kind \in {"fade1", "fade2"}}

Active(e) == activeClass(mods[1]) \in dom[e].cls

Repeats(e) == shouldRepeatAnimation(mods[1], dom[e], e)

\* C5: an element whose repeat option is falsy and that carries the active
\* marker keeps, in every step, its marker and classes, its opacity (fade)
\* and its parallax transform (parallax).
C5_NoRepeatStaysAnimated ==
    [][\A e \in Elements :
          (Active(e) /\ ~Repeats(e)) =>
              /\ dom[e].cls \subseteq dom'[e].cls
              /\ dom'[e].opacity = dom[e].opacity
              /\ (dom[e].transform = "moved" => dom'[e].transform = "moved")]_vars

\* A fade element without repeat that was animated and has since been
\* reported not intersecting.
C5_Witness ==
    \E e \in Elements, o \in 1..Len(obs) :
        /\ mods[1].kind = "fade"
        /\ ~Repeats(e)
        /\ Active(e)
        /\ dom[e].opacity = DefaultTo
        /\ obs[o].last[e] = "out"
        /\ obs[o].queue = << >>
        /\ raf = << >>

\* C6 (revert half, which the re-animation half presupposes): a fade element
\* with repeat that was reset while active (marker still present, opacity
\* back at the starting value, the class-removing listener waiting) is
\* eventually reverted: starting opacity, no active marker, no custom class.
FadingOut(e) ==
    /\ mods[1].kind = "fade"
    /\ Repeats(e)
    /\ Active(e)
    /\ dom[e].listeners # {}
    /\ dom[e].opacity = fromOpacity(getOptionsValue(mods[1], dom[e], e))

Reverted(e) ==
    /\ ~Active(e)
    /\ Custom \notin dom[e].cls
    /\ dom[e].opacity = fromOpacity(getOptionsValue(mods[1], dom[e], e))

C6_RepeatReverts ==
    [][\A e \in Elements :
          (FadingOut(e) /\ e \in Range(mods[1].elements) /\ ~Destroy(1))
              => (FadingOut(e)' \/ Reverted(e)')]_vars

\* C7: at every moment at most one scheduled, not yet committed fade
\* transition exists per element.
C7_AtMostOneScheduled ==
    \A e \in Elements : Cardinality(FadeCallbacks(e)) <= 1

\* C8: when a not-intersecting entry for e has been handled (reset ran), no
\* frame callback of a fade transition scheduled for e is left, whether the
\* first frame had already run or not.
C8_ResetCancels ==
    [][\A e \in Elements :
          (Notify /\ LastPending(e) = "out") => FadeCallbacks(e)' = {}]_vars

\* C9: for a registered fade element, the second frame after an intersecting
\* entry (no not-intersecting entry and no destroy in between) leaves the
\* opacity at the configured ending value, the active marker and the
\* configured custom class present, and no transition scheduled or pending.
\* Stated for an instance whose only connected observer is the one it holds,
\* so that no observer it lost track of takes part.
FadeCommitted(e) ==
    /\ dom[e].opacity = toOpacity(mods[1].parsedOptions[e])
    /\ ActiveFade \in dom[e].cls
    /\ mods[1].parsedOptions[e].class => Custom \in dom[e].cls
    /\ FadeCallbacks(e) = {}
    /\ mods[1].pendingAnimations[e] = 0

C9_FadeEndToEnd ==
    [][\A e \in Elements :
          (/\ mods[1].kind = "fade"
           /\ e \in Range(mods[1].elements)
           /\ age[e] = 2
           /\ ConnectedObservers(1) = {mods[1].observer}
           /\ \E near \in NearInputs, v \in Observations :
                 AnimationFrame(near, v))
          => FadeCommitted(e)']_vars

\* The frame callbacks instance i requested that are still queued.
QueuedCallbacks(i) == {k \in 1..Len(raf) : raf[k].mod = i}

\* C11: when destroy() of an instance returns, no frame callback the instance
\* requested is still queued (first and second frame of a fade transition,
\* the scroll recompute of parallax), so none runs afterwards.
C11_DestroyCancelsFrames ==
    [][Destroy(1) => QueuedCallbacks(1)' = {}]_vars

\* C12: a post-init timer that fires and performs a re-scan pass (manager
\* initialised, reduced motion off) is the timer of the init() in force: no
\* timer started by an init() that destroy() followed is pending next to it.
\* Timers of equal delay fire in the order they were started, so with two
\* pending the one that fires is the older one.
C12_StaleTimerNoRescan ==
    [][\A in \in ScanInputs :
          (InitTimer(in[1], in[2]) /\ mgr.initialized /\ ~in[1])
              => mgr.initTimers = 1]_vars

\* The instances in the manager's registry.
RegistryInstances == {mgr.modules[n] : n \in ModuleNames} \ {0}

Destroyed(m) ==
    /\ m.elements = << >>
    /\ m.observer = 0
    /\ \A e \in Elements : ~m.parsedOptions[e].has

\* C13: when AnimationManager.destroy() returns the registry is empty, every
\* instance that was in it has been destroyed, the mutation watcher is
\* disconnected, no debounce timer is pending and the resize listener is
\* detached; and from then until init() is called again no step adds an
\* element to a roster or a target to an observer.
C13_ManagerDestroyPost ==
    [][/\ ManagerDestroy =>
             /\ \A n \in ModuleNames : mgr'.modules[n] = 0
             /\ \A i \in RegistryInstances : Destroyed(mods'[i])
             /\ ~mgr'.mutationObserver
             /\ ~mgr'.loadTimeout /\ mgr'.debounceTimers = 0
             /\ win'.resizeListeners = << >>
       /\ (~mgr.initialized /\ ~mgr'.initialized) =>
             /\ \A i \in 1..Len(mods') :
                   \/ mods'[i].elements = << >>
                   \/ i <= Len(mods) /\ mods'[i].elements = mods[i].elements
             /\ \A o \in 1..Len(obs') : \A e \in Elements :
                   obs'[o].last[e] # "no" => (o <= Len(obs) /\ obs[o].last[e] # "no")]_vars

\* A destroyed manager whose module had registered elements, with the
\* post-init timer of its init() still to fire.
C13_Witness ==
    /\ ~mgr.initialized
    /\ RegistryInstances = {}
    /\ mgr.initTimers > 0
    /\ win.resizeListeners = << >>
    /\ \E o \in 1..Len(obs) : ~obs[o].connected
    /\ \E e \in Elements : dom[e].present /\ dom[e].attr = mgr.config.attributeName

\* The batch adds a node that carries the attribute or contains an element
\* that does, on a manager whose mutation watcher is connected.
UpdateNeeded(node) ==
    /\ mgr.mutationObserver
    /\ node.el # 0
    /\ dom[node.el].attr = mgr.config.attributeName

\* The step is the insertion of the node (MutationAdds is the only action
\* that makes an element present), or the firing of a debounce timer
\* (Debounce is the only action that takes a timer away and leaves the
\* mutation watcher connected).
Inserted(node) == node.el # 0 /\ ~dom[node.el].present /\ dom'[node.el].present

DebounceFired == mgr'.debounceTimers < mgr.debounceTimers /\ mgr'.mutationObserver

\* C14: at most one debounce timer is pending at any time; a batch that
\* needs an update leaves exactly one pending, also when one was pending
\* already (that one is cleared and a new one started, so the quiet period
\* starts again); and when it fires none is left, so the batches it absorbed
\* get one re-scan pass.
C14_MutationCoalescing ==
    [][/\ mgr'.debounceTimers <= 1
       /\ (\E node \in AddedNodes : UpdateNeeded(node) /\ Inserted(node)) =>
             /\ mgr'.debounceTimers = 1
             /\ mgr'.loadTimeout
             /\ burst' = burst + 1
       /\ DebounceFired => (mgr'.debounceTimers = 0 /\ ~mgr'.loadTimeout)]_vars

\* A second batch has arrived while the debounce timer of the first was
\* pending.
C14_Witness ==
    /\ burst >= 2
    /\ mgr.debounceTimers = 1
    /\ mgr.initialized

\* Element e is one a re-scan has to register: in the document, carrying the
\* manager's attribute, naming a module of the registry that does not report
\* it as initialized.
Unregistered(e) ==
    /\ hasAnimationAttributes(mgr.config, dom[e])
    /\ routedModule(World, e) # 0
    /\ ~isInitialized(mods[routedModule(World, e)], dom[e])

\* C15: on an initialised manager a batch that adds a node carrying the
\* attribute, or containing an element that carries it, leaves a debounce
\* timer pending; when that timer fires with reduced motion off, every
\* element a re-scan has to register is in its module's roster afterwards;
\* and the callback for a batch whose node neither carries nor contains the
\* attribute changes nothing, a pending debounce timer included.
C15_DynamicContent ==
    [][/\ (\E node \in AddedNodes :
              mgr.initialized /\ UpdateNeeded(node) /\ Inserted(node))
          => mgr'.debounceTimers = 1
       /\ \A near \in NearInputs :
             (mgr.initialized /\ Debounce(FALSE, near)) =>
                 \A e \in Elements :
                     Unregistered(e) =>
                         e \in Range(mods'[routedModule(World, e)].elements)
       /\ mutationCallback(World, AddedNode(0, FALSE)) = World]_vars

\* The same for a manager whose attribute name is the default one.
C15_DefaultName ==
    [][mgr.config.attributeName = DEFAULT_attributeName =>
          /\ (\E node \in AddedNodes :
                 mgr.initialized /\ UpdateNeeded(node) /\ Inserted(node))
             => mgr'.debounceTimers = 1
          /\ \A near \in NearInputs :
                (mgr.initialized /\ Debounce(FALSE, near)) =>
                    \A e \in Elements :
                        Unregistered(e) =>
                            e \in Range(mods'[routedModule(World, e)].elements)
          /\ mutationCallback(World, AddedNode(0, FALSE)) = World]_vars

\* The recompute callbacks of instance i that are queued.
ScrollCallbacks(i) == {k \in 1..Len(raf) : raf[k].kind = "scroll" /\ raf[k].mod = i}

\* C16: a parallax instance has at most one recompute callback queued at any
\* time, and it is the one rafId names; a scroll event, whether or not one
\* was queued already, leaves exactly one queued, the newly requested one.
\* A frame runs each queued callback once, so the scroll events between two
\* frames get one recompute.
C16_ScrollCoalescing ==
    [][/\ Cardinality(ScrollCallbacks(1)') <= 1
       /\ \A k \in ScrollCallbacks(1)' : raf'[k].id = mods'[1].rafId
       /\ Scroll =>
             /\ Cardinality(ScrollCallbacks(1)') = 1
             /\ mods'[1].rafId = nextRaf' - 1]_vars

\* A scroll event found a recompute callback queued and superseded it: two
\* ids have been handed out, the callback with the second is the one queued.
C16_Witness ==
    /\ mods[1].kind = "parallax"
    /\ mods[1].scrollListeners = 1
    /\ mods[1].elements # << >>
    /\ nextRaf = 3
    /\ \E k \in 1..Len(raf) : raf[k].kind = "scroll" /\ raf[k].id = 2
    /\ mods[1].rafId = 2

\* C17: a scan made while the reduced-motion preference is active (init(),
\* the post-init timer, the debounced re-scan) adds no element to a roster,
\* constructs no module or observer and touches no element; init() still
\* connects the mutation watcher and marks the manager initialised.
C17_ReducedMotionGate ==
    [][/\ (ManagerInit(TRUE, {}) \/ InitTimer(TRUE, {}) \/ Debounce(TRUE, {})) =>
             /\ Len(mods') = Len(mods)
             /\ \A i \in 1..Len(mods) : mods'[i].elements = mods[i].elements
             /\ obs' = obs
             /\ dom' = dom
       /\ ManagerInit(TRUE, {}) => (mgr'.mutationObserver /\ mgr'.initialized)]_vars

\* init() has just run with the preference active and has left alone an
\* element it registers otherwise: in the document, routed to a module of
\* the registry whose parser reads the manager's attribute name.
C17_Witness ==
    /\ logged
    /\ mgr.initialized
    /\ mgr.mutationObserver
    /\ \E e \in Elements :
          /\ Unregistered(e)
          /\ mods[routedModule(World, e)].config = mgr.config
          /\ e \notin Range(mods[routedModule(World, e)].elements)

\* C18: update() called on an initialised manager returns normally and
\* leaves every element a re-scan has to register in its module's roster.
C18_UpdateRescans ==
    [][(mgr.initialized /\ ManagerUpdate) =>
          /\ ~thrown'
          /\ \A e \in Elements :
                Unregistered(e) =>
                    e \in Range(mods'[routedModule(World, e)].elements)]_vars

\* The instances that have not been destroyed, as far as the state tells:
\* those the registry holds, and in SpecLifecycle instance 1, which the page
\* constructed and never destroys.
LiveInstances == RegistryInstances \cup {1}

\* C19: while an instance that has not been destroyed exists, the resize
\* listener is attached to the window, so the height the instances read is
\* the window's.
C19_ResizeListenerKept ==
    LiveInstances # {} =>
        /\ \E k \in 1..Len(win.resizeListeners) : win.resizeListeners[k] = "handleResize"
        /\ win.windowHeight = win.innerHeight

\* C20: the window has at most one resize listener, and has one exactly when
\* the resizeListenerAttached flag is set; after an instance has been
\* constructed it has one, whether or not one was attached before; after the
\* cleanup it has none.
C20_OneResizeListener ==
    [][/\ Len(win'.resizeListeners) <= 1
       /\ win'.resizeListenerAttached <=> Len(win'.resizeListeners) = 1
       /\ Len(mods') > Len(mods) => Len(win'.resizeListeners) = 1
       /\ ManagerDestroy => win'.resizeListeners = << >>]_vars

\* An instance was constructed after a cleanup: the manager was initialised
\* and destroyed (its post-init timer is still pending, its registry was
\* emptied) and use() has since put an instance into the registry.
C20_Witness ==
    /\ ~mgr.initialized
    /\ mgr.initTimers > 0
    /\ RegistryInstances # {}
    /\ win.resizeListeners = <<"handleResize">>
    /\ win.resizeListenerAttached

\* An element whose markup gives it a duration or a delay attribute.
Timed(e) == dom[e].duration # Null \/ dom[e].delay # Null

\* C21: no failure is surfaced or blocks others: whatever the attribute
\* values of an element (an empty or "true" duration or delay, a structured
\* value), the intersection handling of a batch does not throw, and every
\* element whose last entry in the batch is an intersecting one, and that is
\* not yet animated, has its fade requested when the batch has been handled.
C21_NoFailureSurfaced ==
    [][Notify =>
          /\ ~thrown'
          /\ \A e \in Elements :
                (/\ LastPending(e) = "in"
                 /\ ConnectedObservers(1) = {mods[1].observer}
                 /\ ~Active(e))
                => mods'[1].pendingAnimations[e] # 0]_vars

\* The second half of C21 alone, for the elements whose own markup is
\* well formed: a malformed neighbour earlier in the batch leaves them out.
C21_BatchNotBlocked ==
    [][Notify =>
          \A e \in Elements :
                (/\ LastPending(e) = "in"
                 /\ ConnectedObservers(1) = {mods[1].observer}
                 /\ ~Timed(e)
                 /\ ~Active(e))
                => mods'[1].pendingAnimations[e] # 0]_vars

\* The step is a scan of the manager: init() (the only step that marks the
\* manager initialised), the post-init timer or the debounce timer firing.
ScanStep ==
    \/ ~mgr.initialized /\ mgr'.initialized
    \/ mgr'.initTimers < mgr.initTimers
    \/ DebounceFired

\* e does not carry the attribute the manager's parser reads.
LacksAttribute(e) == dom[e].attr # mgr.config.attributeName

\* C22: for an element that lacks the primary attribute parseElementOptions
\* gives null, and no scan of the manager (init(), post-init timer, debounced
\* re-scan) hands it to a module: no roster gains it, no observer starts to
\* watch it, and the scan leaves the element as it was.
C22_NoAttributeNoModule ==
    [][\A e \in Elements :
          LacksAttribute(e) =>
             /\ parseElementOptions(mgr.config, dom[e], e) = NoOptions
             /\ ScanStep =>
                   /\ dom'[e] = dom[e]
                   /\ \A i \in 1..Len(mods) :
                         Occurrences(mods'[i].elements, e)
                            = Occurrences(mods[i].elements, e)
                   /\ \A o \in 1..Len(obs') :
                         obs'[o].last[e] # "no"
                            => (o <= Len(obs) /\ obs[o].last[e] # "no")]_vars

\* An initialised manager next to an element of the document whose markup
\* names a module of the registry under another attribute than the one the
\* manager reads, and that no module has touched.
C22_Witness ==
    /\ mgr.initialized
    /\ \E e \in Elements :
          /\ dom[e].present
          /\ LacksAttribute(e)
          /\ ElemModule(e) \in ModuleNames
          /\ mgr.modules[ElemModule(e)] # 0
          /\ dom[e].opacity = Undefined /\ dom[e].cls = {}
          /\ \A i \in 1..Len(mods) : e \notin Range(mods[i].elements)

\* C23: parseElementOptions returns null exactly when no module name
\* resolves: the primary attribute is absent, or it is empty and no default
\* animation is configured. With an empty attribute and a default configured
\* the result's module is the default; otherwise it is the attribute's value.
C23_NullIffNoModuleName ==
    result.op = "parseElementOptions" =>
        LET raw == getAttribute(element, parser.config.attributeName)
            default == parser.config.defaultAnimation
        IN /\ result.value = NullResult
                <=> (raw = Null \/ (raw = << >> /\ default = << >>))
           /\ (raw = << >> /\ default # << >>)
                => (result.value.t = "parsed" /\ result.value.module = default)
           /\ (raw # Null /\ raw # << >>)
                => (result.value.t = "parsed" /\ result.value.module = raw)

\* An element with an empty primary attribute has been parsed by a parser
\* with a default animation configured.
C23_Witness ==
    /\ result.op = "parseElementOptions"
    /\ getAttribute(element, parser.config.attributeName) = << >>
    /\ parser.config.defaultAnimation # << >>
    /\ result.value.t = "parsed"

\* The value of the attribute the element carries for option name o in its
\* module-scoped form, and in its generic form; Null without one.
Scoped(o) ==
    getAttribute(element,
                 parser.config.attributeName \o <<"-">> \o result.value.module
                     \o <<"-">> \o o)

Generic(suffix) ==
    getAttribute(element, parser.config.attributeName \o <<"-">> \o suffix)

\* The entries of the common table that map to option name o and whose
\* attribute the element carries, as indices in table order.
Present(o) ==
    {k \in 1..Len(parser.commonAttributes) :
        /\ parser.commonAttributes[k].optionName = o
        /\ Generic(parser.commonAttributes[k].attributeSuffix) # Null}

\* C24: a module-scoped attribute beats a common one: for every option name
\* of the common table, an element that carries the option in both forms,
\* in either order, resolves it to the coerced module-scoped value; and an
\* option only common attributes give has the value of the first entry of
\* the table that gives it.
C24_ModuleScopedBeatsCommon ==
    (result.op = "parseElementOptions" /\ result.value.t = "parsed") =>
        \A k \in 1..Len(parser.commonAttributes) :
            LET m == parser.commonAttributes[k]
                o == m.optionName
            IN /\ (Scoped(o) # Null /\ Generic(m.attributeSuffix) # Null)
                    => get(result.value.options, o)
                          = parseAttributeValue(Scoped(o))
               /\ (Scoped(o) = Null /\ Present(o) # {})
                    => LET first == CHOOSE i \in Present(o) :
                                       \A j \in Present(o) : i <= j
                       IN get(result.value.options, o) =
                            parseAttributeValue(
                              Generic(parser.commonAttributes[first].attributeSuffix))

\* C24 for the option names other than inview (the one the loop over the
\* attributes also sets from the generic form).
C24_ExceptInview ==
    (result.op = "parseElementOptions" /\ result.value.t = "parsed") =>
        \A k \in 1..Len(parser.commonAttributes) :
            LET m == parser.commonAttributes[k]
            IN (/\ m.optionName # <<"i", "n", "v", "i", "e", "w">>
                /\ Scoped(m.optionName) # Null
                /\ Generic(m.attributeSuffix) # Null)
               => get(result.value.options, m.optionName)
                     = parseAttributeValue(Scoped(m.optionName))

\* C25: when a module-prefixed attribute and a generic offset or inview
\* attribute set the same option name ({base}-{module}-offset-top and
\* {base}-offset-top, {base}-{module}-inview and {base}-inview), the option
\* resolves to the module-prefixed value, in whichever order the element
\* carries the two.
C25_PrefixedBeatsGeneric ==
    (result.op = "parseElementOptions" /\ result.value.t = "parsed") =>
        \A suffix \in {<<"o", "f", "f", "s", "e", "t", "-", "t", "o", "p">>, <<"i", "n", "v", "i", "e", "w">>} :
            (Scoped(suffix) # Null /\ Generic(suffix) # Null)
                => get(result.value.options, camelCase(suffix))
                      = parseAttributeValue(Scoped(suffix))

\* The signed decimal pattern -?digits(.digits)?: an optional minus sign,
\* digits up to position b, and nothing more or a point and digits.
Decimal(s) ==
    \E a \in 0..1, b \in 1..Len(s) :
        /\ a = 1 => s[1] = "-"
        /\ a < b
        /\ \A k \in (a + 1)..b : s[k] \in Digits
        /\ \/ b = Len(s)
           \/ /\ b + 2 <= Len(s)
              /\ s[b + 1] = "."
              /\ \A k \in (b + 2)..Len(s) : s[k] \in Digits

Delimited(s) ==
    /\ s # << >>
    /\ \/ s[1] = "{" /\ s[Len(s)] = "}"
       \/ s[1] = "[" /\ s[Len(s)] = "]"

\* C26: value coercion is total and deterministic: "" and "true" give the
\* boolean true, "false" the boolean false, a string of the signed decimal
\* pattern a number, a {..} or [..] delimited string its parsed structure
\* or, when parsing fails, the raw string, any other string itself; no
\* string makes the coercion throw.
C26_CoercionTotal ==
    result.op = "parseAttributeValue" =>
        LET raw == result.raw
            v == result.value
        IN /\ v.t \in {"boolean", "number", "string", "object"}
           /\ v = CASE raw \in {<< >>, <<"t", "r", "u", "e">>} -> Bool(TRUE)
                    [] raw = <<"f", "a", "l", "s", "e">> -> Bool(FALSE)
                    [] Decimal(raw) -> parseFloat(raw)
                    [] Delimited(raw) /\ ~JSON_parse_throws(raw) -> Parsed(raw)
                    [] OTHER -> Text(raw)

\* A delimited string that is no JSON text has been coerced, to itself.
C26_Witness ==
    /\ result.op = "parseAttributeValue"
    /\ Delimited(result.raw)
    /\ JSON_parse_throws(result.raw)
    /\ result.value = Text(result.raw)

\* The inview attribute of the element that defines the geometry of the
\* observer a register() step constructs: the first of the roster.
GeometryInview == dom[mods[1].elements[1]].inview

\* The value is not a number between 0 and 100, with or without its "%".
InvalidInview(raw) ==
    LET body == IF endsWith(raw, <<"%">>) THEN SubSeq(raw, 1, Len(raw) - 1)
                ELSE raw
    IN \/ ~Decimal(body)
       \/ parseFloat(body).n < 0
       \/ parseFloat(body).n > 100 * 1000

\* C27: an observer constructed while the geometry-defining element carries
\* the inview value "p%", p a whole number from 0 to 100, has the single
\* threshold p/100 ("0%" gives 0, "100%" gives 1); with a value outside
\* 0..100 or not a number it has the default threshold of its module.
C27_InviewThreshold ==
    [][Len(obs') = Len(obs) + 1 =>
          LET threshold == obs'[Len(obs')].threshold
          IN /\ \A pct \in 0..100 :
                   GeometryInview = naturalString(pct) \o <<"%">>
                       => threshold = {pct * 10}
             /\ (GeometryInview # Null /\ InvalidInview(GeometryInview))
                   => threshold = mods[1].threshold]_vars

\* The first half of C27 alone.
C27_WholePercent ==
    [][Len(obs') = Len(obs) + 1 =>
          \A pct \in 0..100 :
              GeometryInview = naturalString(pct) \o <<"%">>
                  => obs'[Len(obs')].threshold = {pct * 10}]_vars

\* The second half of C27 with the threshold the instance's observer options
\* hold in place of the module's default, for a first observer.
C27_FallbackToObserverOptions ==
    [][(Len(obs) = 0 /\ Len(obs') = 1) =>
          ((GeometryInview # Null /\ InvalidInview(GeometryInview))
              => obs'[1].threshold = BaseThreshold)]_vars

\* C28: updateConfig(partial) propagates everywhere: after the call the
\* manager's configuration and the configuration of the parser of every
\* module in the registry have the keys of the partial at the partial's
\* values, and the manager and every such module agree on attributeName and
\* defaultAnimation.
C28_UpdateConfigPropagates ==
    [][\A partial \in ConfigPartials :
          UpdateConfigPartial(partial) =>
             /\ \A k \in DOMAIN partial : mgr'.config[k] = partial[k]
             /\ \A i \in RegistryInstances :
                   /\ \A k \in DOMAIN partial : mods'[i].config[k] = partial[k]
                   /\ mods'[i].config = mgr'.config]_vars

\* The first half of C28 alone: the partial is applied everywhere.
C28_PartialApplied ==
    [][\A partial \in ConfigPartials :
          UpdateConfigPartial(partial) =>
             /\ \A k \in DOMAIN partial : mgr'.config[k] = partial[k]
             /\ \A i \in RegistryInstances :
                   \A k \in DOMAIN partial : mods'[i].config[k] = partial[k]]_vars

Magnitude(n) == IF n < 0 THEN 0 - n ELSE n

\* The element asks for direction "up" with a positive speed (its own or
\* the default one) and leaves the start and end factors at their defaults.
UpByDefault ==
    /\ get(ParallaxOptions, <<"d", "i", "r", "e", "c", "t", "i", "o", "n">>) = Text(<<"u", "p">>)
    /\ get(ParallaxOptions, <<"s", "p", "e", "e", "d">>) = Undef
          \/ (get(ParallaxOptions, <<"s", "p", "e", "e", "d">>).t = "number"
              /\ get(ParallaxOptions, <<"s", "p", "e", "e", "d">>).n > 0)
    /\ get(ParallaxOptions, <<"s", "t", "a", "r", "t">>) = Undef
    /\ get(ParallaxOptions, <<"e", "n", "d">>) = Undef

\* C29: for a parallax element with direction "up", a positive speed and the
\* default start and end factors, the vertical offset is negative at every
\* progress from 0 to 1, and at a progress that is not smaller than the one
\* before the offset's magnitude is not smaller either.
C29_UpNegativeMonotone ==
    [][(UpByDefault /\ result'.op = "applyParallaxEffect") =>
          /\ result'.transform.y < 0
          /\ (result.op = "applyParallaxEffect"
               /\ result'.progress >= result.progress)
              => Magnitude(result'.transform.y) >= Magnitude(result.transform.y)]_vars

\* The second half of C29 alone.
C29_Monotone ==
    [][(/\ UpByDefault
        /\ result.op = "applyParallaxEffect"
        /\ result'.op = "applyParallaxEffect"
        /\ result'.progress >= result.progress)
       => Magnitude(result'.transform.y) >= Magnitude(result.transform.y)]_vars

\* e is in the document with the attribute the manager reads, and the module
\* its attribute names (or the default animation) is not in the registry.
UnknownModule(e) ==
    /\ dom[e].present
    /\ ~LacksAttribute(e)
    /\ routedModule(World, e) = 0

\* The elements a scan finds, without those of an unknown module.
KnownElements ==
    SelectSeq(findAllAnimationElements(World),
              LAMBDA e : routedModule(World, e) # 0)

\* C30: an element whose primary attribute names a module that is not in the
\* registry is skipped by every scan of the manager: no roster and no cache
\* of a module gains it, no observer starts to watch it, the element stays as
\* it was (and when the scan finds no other element, so do all modules and
\* observers), and the scan does to the other elements what it does without
\* the skipped ones in the document.
C30_UnknownModuleSkipped ==
    [][ScanStep =>
          /\ \A e \in Elements :
                UnknownModule(e) =>
                   /\ dom'[e] = dom[e]
                   /\ \A i \in 1..Len(mods) :
                         /\ Occurrences(mods'[i].elements, e)
                               = Occurrences(mods[i].elements, e)
                         /\ mods'[i].parsedOptions[e] = mods[i].parsedOptions[e]
                         /\ mods'[i].pendingAnimations[e]
                               = mods[i].pendingAnimations[e]
                   /\ \A o \in 1..Len(obs') :
                         obs'[o].last[e] # "no"
                            => (o <= Len(obs) /\ obs[o].last[e] # "no")
          /\ KnownElements = << >>
                => (mods' = mods /\ obs' = obs /\ dom' = dom)
          /\ \A checkInitialized \in BOOLEAN, near \in NearInputs :
                scanElements(World, findAllAnimationElements(World),
                             checkInitialized, near)
                   = scanElements(World, KnownElements, checkInitialized, near)]_vars

\* After a scan of an initialised manager: an element of an unknown module,
\* untouched and on no roster, and after it in the document an element that
\* the scan has put on the roster of its module.
C30_Witness ==
    /\ mgr.initialized
    /\ \E e \in Elements, later \in Elements :
          /\ e < later
          /\ UnknownModule(e)
          /\ dom[e].opacity = Undefined /\ dom[e].cls = {}
          /\ \A i \in 1..Len(mods) : e \notin Range(mods[i].elements)
          /\ routedModule(World, later) # 0
          /\ later \in Range(mods[routedModule(World, later)].elements)

\* No element of the document carries the attribute that the parser of any
\* module instance reads.
NoModuleSeesAttribute ==
    \A i \in 1..Len(mods), e \in Elements :
        ~hasAnimationAttributes(mods[i].config, dom[e])

\* Rosters, option caches and observers are as they were.
RegistrationsUnchanged ==
    /\ Len(mods') = Len(mods)
    /\ \A i \in 1..Len(mods) :
          /\ mods'[i].elements = mods[i].elements
          /\ mods'[i].parsedOptions = mods[i].parsedOptions
          /\ mods'[i].observer = mods[i].observer
    /\ obs' = obs

\* C31: register on an element that lacks the primary attribute, as the
\* module's own parser sees it, has no visible effect: when no module's
\* parser sees the attribute on any element, the registers of a scan leave
\* every roster, options cache and observer and every element as they were,
\* whether the module is a fade or a parallax instance.
C31_RegisterWithoutAttributeNoOp ==
    [][(ScanStep /\ NoModuleSeesAttribute) =>
          (RegistrationsUnchanged /\ dom' = dom)]_vars

\* C31 for the instances that keep the base class's register: the parallax
\* ones.
C31_BaseRegisterNoOp ==
    [][(/\ ScanStep
        /\ NoModuleSeesAttribute
        /\ \A i \in 1..Len(mods) : mods[i].kind = "parallax") =>
          (RegistrationsUnchanged /\ dom' = dom)]_vars

\* The threshold list the constructor of the instance's variant assigns.
VariantThreshold(m) ==
    IF m.kind = "parallax" THEN ParallaxThreshold ELSE FadeThreshold

\* C32: an observer constructed while the geometry-defining element has no
\* inview option, or an invalid one, has the default threshold list of its
\* module's variant (the fade list 0, 0.1, ..., 1 or the parallax list
\* 0, 0.1), not the list of the base class.
C32_VariantDefaultThreshold ==
    [][Len(obs') = Len(obs) + 1 =>
          ((GeometryInview = Null \/ InvalidInview(GeometryInview))
              => obs'[Len(obs')].threshold = VariantThreshold(mods[1]))]_vars

\* What the first observer of an instance gets in that case: the list of the
\* base class.
C32_BaseThresholdUsed ==
    [][(Len(obs) = 0 /\ Len(obs') = 1) =>
          ((GeometryInview = Null \/ InvalidInview(GeometryInview))
              => obs'[1].threshold = BaseThreshold)]_vars

\* The threshold the options of the first roster element give: its inview
\* percentage, or the list the base class starts every instance with.
FirstElementThreshold(raw) ==
    IF raw = Null \/ InvalidInview(raw) THEN BaseThreshold
    ELSE {parseInviewPercentage(raw).n}

\* C33: every observer a module instance constructs has the root margin and
\* the threshold that the options of the first element of its roster give,
\* whatever the elements registered after it declare.
C33_GeometryFromFirstElement ==
    [][Len(obs') = Len(obs) + 1 =>
          /\ obs'[Len(obs')].rootMargin = NoOffsets
          /\ obs'[Len(obs')].threshold = FirstElementThreshold(GeometryInview')]_vars

\* The part of C33 about later elements: an observer constructed while the
\* roster already had a first element has the geometry of the observer
\* constructed before it, and a first element with a valid inview value
\* always decides the threshold.
C33_LaterElementsIgnored ==
    [][Len(obs') = Len(obs) + 1 =>
          /\ (Len(mods[1].elements) > 0 /\ mods[1].observer # 0) =>
                /\ obs'[Len(obs')].rootMargin = obs[mods[1].observer].rootMargin
                /\ obs'[Len(obs')].threshold = obs[mods[1].observer].threshold
          /\ (GeometryInview' # Null /\ ~InvalidInview(GeometryInview')) =>
                obs'[Len(obs')].threshold = FirstElementThreshold(GeometryInview')]_vars

\* Every entry the next notification delivers for e is a not-intersecting
\* one, and there is at least one.
OnlyOut(e) ==
    /\ \E k \in 1..Len(Pending(1)) : Pending(1)[k].target = e
    /\ \A k \in 1..Len(Pending(1)) :
          Pending(1)[k].target = e => ~Pending(1)[k].isIntersecting

\* Element e and what the instance holds about its fade are as before.
ElementUntouched(e) ==
    /\ dom'[e] = dom[e]
    /\ mods'[1].pendingAnimations[e] = mods[1].pendingAnimations[e]
    /\ FadeCallbacks(e)' = FadeCallbacks(e)

\* C34: for an element whose repeat option is falsy, handling not-intersecting
\* entries changes neither the element's style and classes nor what the
\* instance holds for it, a fade transition already scheduled included.
C34_ResetWithoutRepeatNoOp ==
    [][\A e \in Elements :
          (Notify /\ OnlyOut(e) /\ ~Repeats(e)) => ElementUntouched(e)]_vars

\* C34 for the cases in which reset has nothing to cancel: a parallax
\* instance, or a fade element with no first frame pending.
C34_NothingPendingNoOp ==
    [][\A e \in Elements :
          (/\ Notify /\ OnlyOut(e) /\ ~Repeats(e)
           /\ (mods[1].kind = "parallax" \/ mods[1].pendingAnimations[e] = 0))
              => ElementUntouched(e)]_vars

\* The starting opacity of e, where a fade-out ends.
StartingOpacity(e) == fromOpacity(getOptionsValue(mods[1], dom[e], e))

\* What the transitionend event on e ends is a fade-out.
FadeOutEnds(e) ==
    /\ TransitionEnd(e)
    /\ dom[e].opacity = StartingOpacity(e)

\* C35: for a fade element with repeat that has the active marker, reset
\* leaves the marker and the custom class in place when it returns, and short
\* of destroy() they are removed only by the transitionend event that ends the
\* fade-out reset started.
C35_RemovedWhenFadeOutEnds ==
    [][\A e \in Elements :
          (mods[1].kind = "fade" /\ Repeats(e) /\ Active(e)) =>
              /\ (Notify /\ LastPending(e) = "out") => dom'[e].cls = dom[e].cls
              /\ (dom'[e].cls # dom[e].cls /\ ~Destroy(1)) => FadeOutEnds(e)]_vars

\* C35 with any transitionend event on the element in place of the one that
\* ends the fade-out.
C35_RemovedAtTransitionEnd ==
    [][\A e \in Elements :
          (mods[1].kind = "fade" /\ Repeats(e) /\ Active(e)) =>
              /\ (Notify /\ LastPending(e) = "out") => dom'[e].cls = dom[e].cls
              /\ (dom'[e].cls # dom[e].cls /\ ~Destroy(1)) => TransitionEnd(e)]_vars

\* The bare module attribute of the parsed element, {base}-{module}, and its
\* {base}-{module}-value attribute; Null without one.
BareModuleAttribute ==
    getAttribute(element,
                 parser.config.attributeName \o <<"-">> \o result.value.module)

ValueAttribute == Scoped(<<"v", "a", "l", "u", "e">>)

\* A parallax element has been parsed that declares its speed in no other way.
SpeedOtherwiseUnset ==
    /\ result.op = "parseElementOptions"
    /\ result.value.t = "parsed"
    /\ result.value.module = <<"p", "a", "r", "a", "l", "l", "a", "x">>
    /\ Scoped(<<"s", "p", "e", "e", "d">>) = Null
    /\ Present(<<"s", "p", "e", "e", "d">>) = {}

\* C36: on a parallax element whose speed is otherwise unset, the bare module
\* attribute kw-parallax="0.3" resolves to the option speed = 0.3, and the
\* option record has no option named value and no option with an empty name.
C36_ModuleValueShorthand ==
    (SpeedOtherwiseUnset /\ BareModuleAttribute # Null) =>
        /\ get(result.value.options, <<"s", "p", "e", "e", "d">>)
              = parseAttributeValue(BareModuleAttribute)
        /\ <<"v", "a", "l", "u", "e">> \notin DOMAIN result.value.options
        /\ << >> \notin DOMAIN result.value.options

\* What the mapping does move to speed: the {base}-{module}-value attribute.
C36_ValueAttributeMapped ==
    (SpeedOtherwiseUnset /\ ValueAttribute # Null) =>
        /\ get(result.value.options, <<"s", "p", "e", "e", "d">>)
              = parseAttributeValue(ValueAttribute)
        /\ <<"v", "a", "l", "u", "e">> \notin DOMAIN result.value.options

\* The bare module attribute becomes the option with the empty name.
C36_BareAttributeEmptyName ==
    (SpeedOtherwiseUnset /\ BareModuleAttribute # Null) =>
        get(result.value.options, << >>) = parseAttributeValue(BareModuleAttribute)

\* The connected observers of instance i that have e as a target.
ObserversOf(i, e) ==
    {o \in ConnectedObservers(i) : obs[o].last[e] # "no"}

\* C37: under the manager's scans (init(), the post-init re-scan, the
\* re-scans mutations trigger) no element is in a module's roster more than
\* once and none is a target of more than one observer of that module; an
\* element registered and not yet animated is not registered again.
C37_RosterUnique ==
    \A i \in 1..Len(mods), e \in Elements :
        /\ Occurrences(mods[i].elements, e) <= 1
        /\ Cardinality(ObserversOf(i, e)) <= 1

\* What the re-scans do keep: an element that carries its module's active
\* marker is not added to that module's roster again.
C37_AnimatedNotRegisteredAgain ==
    [][(\E rm \in BOOLEAN, near \in NearInputs :
            InitTimer(rm, near) \/ Debounce(rm, near))
       => \A e \in Elements :
             LET i == routedModule(World, e)
             IN (i # 0 /\ isInitialized(mods[i], dom[e]))
                => Occurrences(mods'[i].elements, e)
                      = Occurrences(mods[i].elements, e)]_vars

\* Every connected observer of the instance that watches e last saw it
\* intersecting, and none has a not-intersecting entry for it queued.
StaysIntersecting(e) ==
    /\ ObserversOf(1, e) # {}
    /\ \A o \in ObserversOf(1, e) :
          /\ obs[o].last[e] = "in"
          /\ \A k \in 1..Len(obs[o].queue) :
                obs[o].queue[k].target = e => obs[o].queue[k].isIntersecting

\* The transitionend event on e ends its committed fade-in.
FadeInEnds(e) ==
    /\ TransitionEnd(e)
    /\ mods[1].kind = "fade"
    /\ Active(e)
    /\ dom[e].opacity = toOpacity(getOptionsValue(mods[1], dom[e], e))

\* C38: a fade element with repeat whose fade-in has committed and that stays
\* intersecting keeps the active marker and the custom class when the
\* transitionend event of that fade-in fires, whatever callbacks were
\* delivered before it first animated.
C38_FadeInEndKeepsMarker ==
    [][\A e \in Elements :
          (FadeInEnds(e) /\ Repeats(e) /\ StaysIntersecting(e))
              => dom'[e].cls = dom[e].cls]_vars

\* C38 for an element on which no reset has left its listener.
C38_NoListenerKeepsMarker ==
    [][\A e \in Elements :
          (FadeInEnds(e) /\ Repeats(e) /\ dom[e].listeners = {})
              => dom'[e].cls = dom[e].cls]_vars

\* C39: when destroy() of a parallax instance returns, no scroll listener of
\* the instance is attached to the window, so a scroll event after it requests
\* no frame and runs no recompute for the instance; a register() after
\* destroy() leaves exactly one attached.
C39_ScrollListenerDetached ==
    [][mods[1].kind = "parallax" =>
          /\ Destroy(1) => mods'[1].scrollListeners = 0
          /\ (Scroll /\ ~mods[1].scrollListenerAttached)
                => (ScrollCallbacks(1)' = ScrollCallbacks(1) /\ dom' = dom)
          /\ (\E els \in RegisterInputs, near \in NearInputs : Register(1, els, near))
                => mods'[1].scrollListeners = 1]_vars

\* What destroy() of a parallax instance does do: it clears the flag and
\* cancels the recompute it had requested.
C39_FlagClearedFrameCancelled ==
    [][(mods[1].kind = "parallax" /\ Destroy(1)) =>
          /\ ~mods'[1].scrollListenerAttached
          /\ mods'[1].rafId = 0
          /\ ScrollCallbacks(1)' = {}]_vars

\* ------------------------- specification: init() called at any time
\* The manager of SpecManager with init() called whether or not it is
\* initialised; result records the call and what it found.
InitCalled(w, again) ==
    /\ WithinBounds(w)
    /\ mods' = w.mods
    /\ obs' = w.obs
    /\ dom' = w.dom
    /\ raf' = w.raf
    /\ nextRaf' = w.nextRaf
    /\ mgr' = w.mgr
    /\ win' = w.win
    /\ thrown' = w.thrown
    /\ logged' = w.logged
    /\ burst' = w.burst
    /\ result' = [op |-> "init", initialized |-> again]
    /\ UNCHANGED <<parser, element, age>>

InitCall(prefersReducedMotion, near) ==
    InitCalled(AnimationManager_init(World, prefersReducedMotion, near),
               mgr.initialized)

NextInit ==
    \/ \E kind \in {"fade", "parallax"} : Use(kind)
    \/ \E in \in ScanInputs : InitCall(in[1], in[2])
    \/ ManagerDestroy
    \/ \E in \in ScanInputs : InitTimer(in[1], in[2])
    \/ \E in \in ScanInputs : Debounce(in[1], in[2])
    \/ \E e \in Elements, wrapped \in BOOLEAN : MutationAdds(AddedNode(e, wrapped))

SpecInit == InitManager /\ [][NextInit]_vars

\* init() has scanned: every element in the document that the manager routes
\* to a registered module, and that the module's own parser accepts, is in
\* that module's roster.
Scanned ==
    \A e \in Elements :
        LET i == routedModule(World, e)
        IN (/\ dom[e].present
            /\ hasAnimationAttributes(mgr.config, dom[e])
            /\ i # 0
            /\ hasAnimationAttributes(mods[i].config, dom[e]))
           => e \in Range(mods'[i].elements)

\* C40: an init() call on an initialised manager scans nothing, registers no
\* element, installs no mutation watcher and starts no timer: nothing of the
\* manager, the modules, the observers or the document changes. On a manager
\* that is not initialised, after destroy() as well, init() scans (reduced
\* motion off), connects the mutation watcher, starts the post-init timer and
\* marks the manager initialised.
C40_InitIdempotent ==
    [][\A in \in ScanInputs :
          InitCall(in[1], in[2]) =>
              IF mgr.initialized
              THEN /\ mgr' = mgr /\ mods' = mods /\ obs' = obs
                   /\ dom' = dom /\ raf' = raf /\ win' = win
              ELSE /\ mgr'.initialized
                   /\ mgr'.mutationObserver
                   /\ mgr'.initTimers = mgr.initTimers + 1
                   /\ ~in[1] => Scanned]_vars

\* init() has been called on an initialised manager whose module holds a
\* registered element, after an earlier init(), a destroy() and the init()
\* that made it initialised again (the timers of both inits are pending).
C40_Witness ==
    /\ result = [op |-> "init", initialized |-> TRUE]
    /\ mgr.initialized
    /\ mgr.mutationObserver
    /\ mgr.initTimers = 2
    /\ \E i \in RegistryInstances : mods[i].elements # << >>
====
